---- MODULE Spec2Model ----
(***************************************************************************)
(* Model of the Parabola RM installation orchestrator                      *)
(* (src/src/executor/installation_executor.py) and of the partition        *)
(* lifecycle manager it drives                                             *)
(* (src/src/builders/partition/partition_manager.py).                      *)
(*                                                                         *)
(* One behaviour is one run of InstallationExecutor.execute.  The builders *)
(* and installers are the collaborators the executor is constructed with;  *)
(* each of their calls ends in "ok" (returned True), "fail" (returned      *)
(* False) or "raise" (raised an Exception).  The partition manager is      *)
(* modelled from its code; the exit codes of the external commands it runs *)
(* are the nondeterministic inputs.                                        *)
(***************************************************************************)
EXTENDS Integers, Sequences, FiniteSets, TLC

\* Largest exit code an external command is modelled to return.
MaxRC == 1

\* Exit codes of an external command (0 is success).
RC == 0..MaxRC

\* Devices execute may be asked to install to.
Devices == {"/dev/mmcblk1", "/dev/sdb"}

\* The command runner the components are constructed with: the repository's
\* CrossEnvManager, or a substitute that accepts the stdin keyword.
EnvManagers == {"CrossEnvManager", "StdinRunner"}

\* Outcomes of a call to a builder or installer.
Outcomes == {"ok", "fail", "raise"}

\* Number of partitions, i.e. of keys of the mount-point map.
NumPartitions == 3

\* Largest home_size (GiB) a configuration is modelled to set.
MaxHomeSize == 1

\* A configuration section maps each key to {} (key absent) or to {value}.
\* dict.get(key, default)
Get(c, key, default) == IF c[key] = {} THEN default ELSE CHOOSE v \in c[key] : TRUE

\* config['partition']['layout']: the layouts a configuration is modelled to
\* give (fat_size and system_size are left out together or set together).
LayoutConfigs ==
    {c \in [fat_size : {{}, {64}},
            system_size : {{}, {4}},
            home_size : {{}} \cup {{h} : h \in 0..MaxHomeSize}] :
        (c.fat_size = {}) = (c.system_size = {})}

\* config['partition']['filesystem']['ext4_params']: no key set,
\* journal_size alone, or the four keys.
Ext4ParamConfigs ==
    {c \in [journal_size : {{}, {8}},
            block_size : {{}, {4096}},
            inode_size : {{}, {256}},
            inode_ratio : {{}, {8192}}] :
        /\ (c.block_size = {}) = (c.inode_size = {})
        /\ (c.block_size = {}) = (c.inode_ratio = {})
        /\ c.journal_size = {} => c.block_size = {}}

\* config['partition']['filesystem']: system_type and home_type left out or
\* set to a filesystem other than the default.
FsTypeConfigs ==
    {c \in [system_type : {{}, {"ext3"}},
            home_type : {{}, {"ext3"}}] :
        (c.system_type = {}) = (c.home_type = {})}

\* system_type = filesystem.get('system_type', 'ext4')
SystemType(c) == Get(c, "system_type", "ext4")

\* home_type = filesystem.get('home_type', 'ext4')
HomeType(c) == Get(c, "home_type", "ext4")

\* config['desktop']: environment left out or set to 'none'.
DesktopConfigs == [environment : {{}, {"none"}}]

\* environment = self.desktop_config.get('environment', 'xfce')
Environment(c) == Get(c, "environment", "xfce")

\* The gating stages of execute, by the name of the method execute calls.
Stages == {"_build_components", "_partition_and_format", "_install_bootloader",
           "mount_partitions", "_install_system", "_install_desktop"}

\* The collaborator operations execute can invoke.
Ops == {"bootloader_builder.build", "kernel_builder.build", "partition_device",
        "sleep", "format_partitions", "get_output_path", "install_bootloader",
        "_create_mount_points", "mount_partitions", "get_output_paths",
        "system_installer.install", "desktop_configurator.install",
        "configure_battery_monitor", "configure_auto_login",
        "configure_shutdown", "unmount_partitions"}

VARIABLES
    pc,           \* position of the run inside execute
    device,       \* argument device
    skip_build,   \* argument skip_build
    envManager,   \* the command runner in use
    calls,        \* operations invoked so far, in order
    result,       \* outcome of each invoked operation ("none" if not invoked)
    stageRet,     \* value each gating stage returned to execute
    mount_points, \* dict built by _create_mount_points, in insertion order
    mountArg,     \* mount points in the order mount_partitions processed them
    mounted,      \* partitions currently mounted
    mountedEver,  \* partitions mounted at some point of the run
    unmountArg,   \* list passed to unmount_partitions
    umountTried,  \* paths on which a umount command was run
    cmds,         \* external commands run through run_command, in order
    retPending,   \* "fail" when a return False is in flight in the finally
    ret,          \* value returned by execute ("none" while running)
    layoutCfg,    \* config['partition']['layout'] (a key maps to {} if absent)
    fsCfg,        \* config['partition']['filesystem']['ext4_params'], likewise
    script,       \* lines written to the temporary fdisk command file
    fdiskStdin,   \* lines fdisk received on its standard input
    exits,        \* exit code of each command of cmds
    argv,         \* arguments of each command of cmds
    bootloaderArg,\* bootloader_path passed to install_bootloader
    bootRO,       \* force_ro state of the boot0 region: "ro" or "rw"
    args,         \* command line of install_parabola: device and skip_build
    cli,          \* position of install_parabola: "setup", "execute", "returned"
    setupRet,     \* outcome of env_manager.setup_environment ("none" before)
    exitCode,     \* exit codes install_parabola returned (none or one)
    fsTypes,      \* config['partition']['filesystem'], keys system_type, home_type
    desktopCfg,   \* config['desktop'], key environment
    delays,       \* lengths of the time.sleep calls made, in seconds
    tempFile,     \* temporary fdisk command file: "none", "exists" or "removed"
    installArg,   \* mount_points passed to system_installer.install
    desktopArg,   \* mount point passed to each desktop and best-effort call
    env_type,     \* CrossEnvManager.env_type: "container" or "direct"
    container_runtime, \* CrossEnvManager.container_runtime ("unset": no attribute)
    checks,       \* calls of _check_container_runtime made so far, with what they did
    runs,         \* calls of run_command made so far, with what the caller observed
    sysIn,        \* mount_points passed to SystemInstaller.install
    sysLog,       \* sub-steps SystemInstaller.install ran, with target and outcome
    sysRet,       \* value SystemInstaller.install returned ("none" before)
    vPc,          \* position of the run inside InstallationVerifier.verify
    vDevice,      \* argument device of verify
    vCalls,       \* methods verify invoked so far, in order
    vMountPoints, \* dict built by the verifier's _create_mount_points
    vMounts,      \* mount commands run: node, mount point, exit code
    vUmounts,     \* umount commands run: mount point, exit code
    vPending,     \* "fail" when a return False is in flight in the finally of verify
    vRet,         \* value verify returned ("none" while running)
    config,       \* ConfigManager.config, a tree of sections and values
    lastSet,      \* the last set_value call: key path, value, whether it raised
    got,          \* the get_value call made since: key path and what it returned
    defaultCfg,   \* the default configuration load_config read
    userCfg,      \* the user configuration load_config read
    loaded        \* TRUE once load_config has returned

vars == <<pc, device, skip_build, envManager, calls, result, stageRet,
          mount_points, mountArg, mounted, mountedEver, unmountArg,
          umountTried, cmds, retPending, ret, layoutCfg, fsCfg, script,
          fdiskStdin, exits, argv, bootloaderArg, bootRO, args, cli,
          setupRet, exitCode, delays, fsTypes, desktopCfg,
          tempFile,
          installArg,
          desktopArg,
          env_type,
          container_runtime,
          checks,
          runs,
          sysIn,
          sysLog,
          sysRet,
          vPc,
          vDevice,
          vCalls,
          vMountPoints,
          vMounts,
          vUmounts,
          vPending,
          vRet,
          config,
          lastSet,
          got,
          defaultCfg,
          userCfg,
          loaded>>

\* The configuration and the command line, fixed during a run.
cfgVars == <<layoutCfg, fsCfg, args, fsTypes, desktopCfg>>

envVars == <<env_type, container_runtime, checks, runs>>

EnvIdle ==
    /\ env_type = "container"
    /\ container_runtime = "unset"
    /\ checks = <<>>
    /\ runs = <<>>

\* The state of install_parabola and execute.
mainVars == <<pc, device, skip_build, envManager, calls, result, stageRet,
              mount_points, mountArg, mounted, mountedEver,
              unmountArg, umountTried, cmds, retPending, ret,
              layoutCfg, fsCfg, script, fdiskStdin, exits, argv,
              bootloaderArg, bootRO, args, cli, setupRet,
              exitCode, delays, fsTypes, desktopCfg, tempFile,
              installArg, desktopArg>>

sysVars == <<sysIn, sysLog, sysRet>>

SysIdle ==
    /\ sysIn = <<>>
    /\ sysLog = <<>>
    /\ sysRet = "none"

verVars == <<vPc, vDevice, vCalls, vMountPoints, vMounts, vUmounts, vPending, vRet>>

VerIdle ==
    /\ vPc = "idle"
    /\ vDevice = ""
    /\ vCalls = <<>>
    /\ vMountPoints = <<>>
    /\ vMounts = <<>>
    /\ vUmounts = <<>>
    /\ vPending = "none"
    /\ vRet = "none"

confVars == <<config, lastSet, got, defaultCfg, userCfg, loaded>>

ConfIdle ==
    /\ config = [isDict |-> TRUE, val |-> 0, items |-> <<>>]
    /\ lastSet = <<>>
    /\ got = <<>>
    /\ defaultCfg = <<>>
    /\ userCfg = <<>>
    /\ loaded = FALSE

\* The state of the components modelled beside execute.
sideVars == <<envVars, sysVars, verVars, confVars>>

SideIdle ==
    /\ EnvIdle
    /\ SysIdle
    /\ VerIdle
    /\ ConfIdle

\* The state of install_parabola around execute.
cliVars == <<cli, setupRet, exitCode>>

----------------------------------------------------------------------------
\* Helpers

\* A command handed to run_command.
Cmd(tool, part, path) == [tool |-> tool, part |-> part, path |-> path]

\* Index of the first non-zero exit code of rcs, Len(rcs)+1 if there is none.
FirstFail(rcs) ==
    IF \E i \in 1..Len(rcs) : rcs[i] # 0
    THEN CHOOSE i \in 1..Len(rcs) :
            rcs[i] # 0 /\ \A j \in 1..(i-1) : rcs[j] = 0
    ELSE Len(rcs) + 1

\* Number of commands a loop with early return runs on exit codes rcs.
Attempts(rcs) == IF FirstFail(rcs) > Len(rcs) THEN Len(rcs) ELSE FirstFail(rcs)

AllZero(rcs) == FirstFail(rcs) > Len(rcs)

Count(op) == Cardinality({i \in 1..Len(calls) : calls[i] = op})

Invoked(op) == Count(op) > 0

\* Position of the first invocation of op in calls (0 if never invoked).
Pos(op) == IF Invoked(op) THEN CHOOSE i \in 1..Len(calls) :
                                  calls[i] = op /\ \A j \in 1..(i-1) : calls[j] # op
           ELSE 0

SetMax(S) == CHOOSE x \in S : \A y \in S : y <= x

SetMin(S) == CHOOSE x \in S : \A y \in S : x <= y

----------------------------------------------------------------------------
\* InstallationExecutor._create_mount_points

MountPath(i) == CASE i = 1 -> "mnt/p1"
                  [] i = 2 -> "mnt/p2"
                  [] i = 3 -> "mnt/p3"

\* mount_dir = os.path.join(self.output_dir, 'mnt'), relative to output_dir.
MountDir == "mnt"

\* os.path.dirname of a mount point.
Dirname(path) == CASE path \in {"mnt/p1", "mnt/p2", "mnt/p3"} -> "mnt"
                   [] OTHER -> ""

\* Mutant of CreateMountPointsDict: the home partition has no mount point.
CreateMountPointsDictTwo == [i \in 1..2 |-> [key |-> i, path |-> MountPath(i)]]

\* The dict literal, as the sequence of its items in insertion order.
CreateMountPointsDict == [i \in 1..NumPartitions |-> [key |-> i, path |-> MountPath(i)]]

DictKeys(d) == {d[i].key : i \in 1..Len(d)}

DictGet(d, k) == (CHOOSE i \in 1..Len(d) : d[i].key = k)

\* sorted(keys, reverse=False)
RECURSIVE SortedAscending(_)
SortedAscending(S) ==
    IF S = {} THEN <<>>
    ELSE <<SetMin(S)>> \o SortedAscending(S \ {SetMin(S)})

\* sorted(keys, reverse=True)
RECURSIVE SortedReverse(_)
SortedReverse(S) ==
    IF S = {} THEN <<>>
    ELSE <<SetMax(S)>> \o SortedReverse(S \ {SetMax(S)})

\* [mount_points[p] for p in sorted(mount_points.keys(), reverse=True)]
MountPointPaths(d) ==
    LET ks == SortedReverse(DictKeys(d))
    IN  [i \in 1..Len(ks) |-> d[DictGet(d, ks[i])].path]

\* Partition index whose mount point is path p.
PartOf(d, p) == d[CHOOSE i \in 1..Len(d) : d[i].path = p].key

----------------------------------------------------------------------------
\* PartitionManager: the commands each method runs and the value it returns,
\* as functions of the exit codes of the commands.

\* CrossEnvManager.run_command(command, cwd) has no stdin parameter: a call
\* that passes stdin= raises TypeError before any process is started.
RunCommandRaises(env, passesStdin) == env = "CrossEnvManager" /\ passesStdin

\* partition_device: one fdisk invocation fed with the script on stdin.
PartitionDeviceCmds(env) ==
    IF RunCommandRaises(env, TRUE) THEN <<>> ELSE <<Cmd("fdisk", 0, "")>>

\* The NamedTemporaryFile(delete=False) after partition_device returned:
\* os.unlink(f.name) is reached only when fdisk exited 0.
PartitionDeviceTempFile(r) == IF r = "ok" THEN "removed" ELSE "exists"

PartitionDeviceRet(env, rc) ==
    IF RunCommandRaises(env, TRUE) THEN "fail"
    ELSE IF rc # 0 THEN "fail" ELSE "ok"

\* format_partitions: mkfs.vfat p1, mkfs.ext4 p2, mkfs.ext4 p3.
FormatTools == <<"mkfs.vfat", "mkfs.ext4", "mkfs.ext4">>

\* Mutant of FormatPartitionsCmds: a failed mkfs does not stop the method.
FormatPartitionsCmdsAll(rcs) ==
    [i \in 1..Len(rcs) |-> Cmd(FormatTools[i], i, "")]

FormatPartitionsCmds(rcs) ==
    [i \in 1..Attempts(rcs) |-> Cmd(FormatTools[i], i, "")]

FormatPartitionsRet(rcs) == IF AllZero(rcs) THEN "ok" ELSE "fail"

\* install_bootloader: unprotect boot0, zero it, write the image, re-protect.
BootloaderTools == <<"force_ro=0", "dd_zero", "dd_image", "force_ro=1">>

\* Mutant of InstallBootloaderCmds: the exit codes are not checked.
InstallBootloaderCmdsNoAbort(rcs) ==
    [i \in 1..Len(rcs) |-> Cmd(BootloaderTools[i], 0, "")]

\* Mutant of InstallBootloaderCmds: read-only mode is restored on every path.
InstallBootloaderCmdsReprotect(rcs) ==
    IF AllZero(rcs) \/ Attempts(rcs) \in {1, 4}
    THEN [i \in 1..Attempts(rcs) |-> Cmd(BootloaderTools[i], 0, "")]
    ELSE [i \in 1..Attempts(rcs) |-> Cmd(BootloaderTools[i], 0, "")]
         \o <<Cmd(BootloaderTools[4], 0, "")>>

InstallBootloaderCmds(rcs) ==
    [i \in 1..Attempts(rcs) |-> Cmd(BootloaderTools[i], 0, "")]

\* Mutant of InstallBootloaderRet: the exit code of the re-enabling command
\* is not checked.
InstallBootloaderRetUncheckedLast(rcs) ==
    IF AllZero(SubSeq(rcs, 1, 3)) THEN "ok" ELSE "fail"

InstallBootloaderRet(rcs) == IF AllZero(rcs) THEN "ok" ELSE "fail"

\* mount_partitions: for partition, mount_point in mount_points.items(),
\* returning False at the first mount that exits non-zero.
MountPartitionsCmds(d, rcs) ==
    [i \in 1..Attempts(rcs) |-> Cmd("mount", d[i].key, d[i].path)]

\* As MountPartitionsMounted, but undoing the mounts when one fails.
MountPartitionsMountedRollback(d, rcs) ==
    IF AllZero(rcs) THEN {d[i].key : i \in 1..Len(rcs)} ELSE {}

MountPartitionsMounted(d, rcs) ==
    {d[i].key : i \in {j \in 1..Attempts(rcs) : rcs[j] = 0}}

MountPartitionsRet(rcs) == IF AllZero(rcs) THEN "ok" ELSE "fail"

\* unmount_partitions: for mount_point in mount_points, returning False at
\* the first umount that exits non-zero.
UnmountPartitionsCmds(paths, rcs) ==
    [i \in 1..Attempts(rcs) |-> Cmd("umount", 0, paths[i])]

UnmountPartitionsReleased(d, paths, rcs) ==
    {PartOf(d, paths[i]) : i \in {j \in 1..Attempts(rcs) : rcs[j] = 0}}

UnmountPartitionsRet(rcs) == IF AllZero(rcs) THEN "ok" ELSE "fail"

----------------------------------------------------------------------------
\* PartitionManager: the text of the commands.

\* One line of the fdisk command file; num is the number inside a size line.
Line(text, num) == [text |-> text, num |-> num]

\* Mutant of HomeSizeLine: the test is home_size >= 0.
HomeSizeLineAlways(home_size) == Line("+G", home_size)

\* Last-sector answer for partition 3: `if home_size > 0'.
HomeSizeLine(home_size) ==
    IF home_size > 0 THEN Line("+G", home_size) ELSE Line("", 0)

\* partition_device: the lines written to the temporary file.
PartitionScript(layout) ==
    LET fat_size == Get(layout, "fat_size", 20)
        system_size == Get(layout, "system_size", 2)
        home_size == Get(layout, "home_size", 0)
    IN  << Line("o", 0),
           Line("n", 0), Line("p", 0), Line("1", 0), Line("", 0),
           Line("+M", fat_size),
           Line("t", 0), Line("c", 0), Line("a", 0),
           Line("n", 0), Line("p", 0), Line("2", 0), Line("", 0),
           Line("+G", system_size),
           Line("n", 0), Line("p", 0), Line("3", 0), Line("", 0),
           HomeSizeLine(home_size),
           Line("w", 0) >>

\* What fdisk does with a command file, following the meaning the code gives
\* to each line it writes: o = new DOS table; n, p, <number>, <first sector>,
\* <size> = new primary partition (an empty first sector is the default, an
\* empty size is all remaining space, +<n>M / +<n>G are MiB / GiB);
\* t, <code> = change the partition type; a = toggle the bootable flag;
\* w = write the table.  t and a act on the only partition when the table
\* holds a single one, and read a partition number first otherwise.
PartNumber(text) == CASE text = "1" -> 1
                      [] text = "2" -> 2
                      [] text = "3" -> 3
                      [] text = "4" -> 4
                      [] OTHER -> 0

SizeOf(line) == CASE line.text = "+M" -> [unit |-> "MiB", n |-> line.num]
                  [] line.text = "+G" -> [unit |-> "GiB", n |-> line.num]
                  [] OTHER -> [unit |-> "rest", n |-> 0]

\* Index in table t of partition number k (0 if there is none).
EntryOf(t, k) == IF \E i \in 1..Len(t) : t[i].num = k
                 THEN CHOOSE i \in 1..Len(t) : t[i].num = k
                 ELSE 0

RECURSIVE FdiskRun(_, _, _)
FdiskRun(s, i, st) ==
    IF i > Len(s) \/ st.written \/ ~st.ok THEN st
    ELSE LET c == s[i].text
             one == Len(st.table) = 1
             sel == IF one THEN 1
                    ELSE IF i + 1 <= Len(s)
                    THEN EntryOf(st.table, PartNumber(s[i+1].text))
                    ELSE 0
             arg == IF one THEN i + 1 ELSE i + 2
         IN  CASE c = "o" -> FdiskRun(s, i + 1, [st EXCEPT !.table = <<>>, !.fresh = TRUE])
               [] c = "n" ->
                    IF /\ i + 4 <= Len(s)
                       /\ s[i+1].text = "p"
                       /\ PartNumber(s[i+2].text) \in 1..4
                       /\ EntryOf(st.table, PartNumber(s[i+2].text)) = 0
                       /\ s[i+3].text = ""
                    THEN FdiskRun(s, i + 5,
                            [st EXCEPT !.table = Append(@,
                                [num |-> PartNumber(s[i+2].text),
                                 size |-> SizeOf(s[i+4]),
                                 type |-> "83",
                                 boot |-> FALSE])])
                    ELSE [st EXCEPT !.ok = FALSE]
               [] c = "t" ->
                    IF sel # 0 /\ arg <= Len(s)
                    THEN FdiskRun(s, arg + 1,
                            [st EXCEPT !.table[sel].type = s[arg].text])
                    ELSE [st EXCEPT !.ok = FALSE]
               [] c = "a" ->
                    IF sel # 0
                    THEN FdiskRun(s, arg,
                            [st EXCEPT !.table[sel].boot = ~@])
                    ELSE [st EXCEPT !.ok = FALSE]
               [] c = "w" -> [st EXCEPT !.written = TRUE]
               [] OTHER -> [st EXCEPT !.ok = FALSE]

\* The partition table fdisk writes for command file s.
Fdisk(s) == FdiskRun(s, 1, [table |-> <<>>, fresh |-> FALSE, written |-> FALSE,
                            ok |-> TRUE])

\* A file or device name: a base and what the code appends to it.
Node(base, suffix) == <<base, suffix>>

Plain(name) == <<"", name>>

\* The arguments of one command: tool, source, target, option names/features
\* and the numbers given to the options, in the order of the command line.
Argv(tool, src, target, flags, nums) ==
    [tool |-> tool, src |-> src, target |-> target, flags |-> flags, nums |-> nums]

\* os.path.basename(device)
Basename(dev) == CASE dev = "/dev/mmcblk1" -> "mmcblk1"
                   [] dev = "/dev/sdb" -> "sdb"

\* f"p{partition}"
PartSuffix(k) == CASE k = 1 -> "p1"
                   [] k = 2 -> "p2"
                   [] k = 3 -> "p3"

\* ['fdisk', device] with the command file as stdin.
PartitionDeviceArgv(env, dev) ==
    IF RunCommandRaises(env, TRUE) THEN <<>>
    ELSE <<Argv("fdisk", Plain("stdin"), Plain(dev), <<>>, <<>>)>>

\* What the fdisk process reads on stdin.
PartitionDeviceStdin(env, lines) ==
    IF RunCommandRaises(env, TRUE) THEN <<>> ELSE lines

\* ['mkfs.vfat', f"{device}p1"]
VfatCmd(dev) == Argv("mkfs.vfat", Plain(""), Node(dev, "p1"), <<>>, <<>>)

\* Mutant of Ext4Cmd: the home partition keeps the 64bit feature.
Ext4CmdHomeDiffers(dev, params, part) ==
    Argv("mkfs.ext4", Plain(""), Node(dev, part),
         IF part = "p3" THEN <<"^metadata_csum", "uninit_bg">>
         ELSE <<"^64bit", "^metadata_csum", "uninit_bg">>,
         << Get(params, "journal_size", 4), Get(params, "block_size", 1024),
            Get(params, "inode_ratio", 4096), Get(params, "inode_size", 128) >>)

\* ['mkfs.ext4', '-O', '^64bit', '-O', '^metadata_csum', '-O', 'uninit_bg',
\*  '-J', size=journal_size, '-b', block_size, '-i', inode_ratio,
\*  '-I', inode_size, f"{device}p<n>"]
Ext4Cmd(dev, params, part) ==
    Argv("mkfs.ext4", Plain(""), Node(dev, part),
         <<"^64bit", "^metadata_csum", "uninit_bg">>,
         << Get(params, "journal_size", 4), Get(params, "block_size", 1024),
            Get(params, "inode_ratio", 4096), Get(params, "inode_size", 128) >>)

FormatPartitionsArgv(dev, params, n) ==
    SubSeq(<<VfatCmd(dev), Ext4Cmd(dev, params, "p2"), Ext4Cmd(dev, params, "p3")>>,
           1, n)

\* Sector size, number of zeroed sectors and write offset of the dd commands.
SectorSize == 512

ZeroCount == 4096

SeekSectors == 2

\* The four commands of install_bootloader.
InstallBootloaderArgv(dev, bootloader_path, n) ==
    SubSeq(<< Argv("sh", Plain("echo 0"), Node(Basename(dev), "boot0/force_ro"),
                   <<>>, <<>>),
              Argv("dd", Plain("/dev/zero"), Node(dev, "boot0"),
                   <<"bs", "count">>, <<SectorSize, ZeroCount>>),
              Argv("dd", Plain(bootloader_path), Node(dev, "boot0"),
                   <<"bs", "seek">>, <<SectorSize, SeekSectors>>),
              Argv("sh", Plain("echo 1"), Node(Basename(dev), "boot0/force_ro"),
                   <<>>, <<>>) >>,
           1, n)

\* force_ro of boot0 after the commands cs ran with exit codes rcs.
RECURSIVE BootRegionAfter(_, _, _)
BootRegionAfter(ro, cs, rcs) ==
    IF cs = <<>> THEN ro
    ELSE LET now == IF rcs[1] # 0 THEN ro
                    ELSE IF cs[1].tool = "force_ro=0" THEN "rw"
                    ELSE IF cs[1].tool = "force_ro=1" THEN "ro"
                    ELSE ro
         IN  BootRegionAfter(now, Tail(cs), Tail(rcs))

\* UBootBuilder.get_output_path()
BootloaderOutputPath == "output/bootloader/u-boot.imx"

\* ['mount', f"{device}p{partition}", mount_point]
MountPartitionsArgv(dev, d, n) ==
    [i \in 1..n |-> Argv("mount", Node(dev, PartSuffix(d[i].key)),
                          Plain(d[i].path), <<>>, <<>>)]

\* ['umount', mount_point]
UnmountPartitionsArgv(paths, n) ==
    [i \in 1..n |-> Argv("umount", Plain(""), Plain(paths[i]), <<>>, <<>>)]

\* ['chroot', mount_point, 'pacman', '-S', '--noconfirm', <packages>], named
\* by the first package of the list.
PacmanArgv(mount_point, package) ==
    Argv("chroot", Plain(""), Plain(mount_point),
         <<"pacman", "-S", "--noconfirm", package>>, <<>>)

\* DesktopConfigurator.install: the pacman commands of _install_xorg,
\* _install_xfce and _configure_epaper_optimizations, in that order.
DesktopPackages == <<"xorg-server", "exo", "onboard">>

\* Commands DesktopConfigurator.install runs: none when the environment is
\* 'none' (or the call raises), else the pacman commands up to the first
\* that exits non-zero.
DesktopInstallCmds(env, mount_point, o, rcs) ==
    IF env = "none" \/ o = "raise"
    THEN <<>>
    ELSE [i \in 1..Attempts(rcs) |-> Cmd("chroot", 2, mount_point)]

DesktopInstallArgv(mount_point, n) ==
    [i \in 1..n |-> PacmanArgv(mount_point, DesktopPackages[i])]

\* What DesktopConfigurator.install can give: True at once for 'none'; else
\* False when a pacman command exits non-zero, and True or False (a file
\* could not be written) when all exit 0.
DesktopInstallOutcomes(env, rcs) ==
    IF ~AllZero(rcs) THEN IF env = "none" THEN {} ELSE {"fail"}
    ELSE IF env = "none" THEN {"ok", "raise"} ELSE {"ok", "fail", "raise"}

\* Commands configure_battery_monitor runs: pacman for xfce4-genmon-plugin.
BatteryMonitorCmds(mount_point, o) ==
    IF o = "raise" THEN <<>> ELSE <<Cmd("chroot", 2, mount_point)>>

BatteryMonitorArgv(mount_point, n) ==
    [i \in 1..n |-> PacmanArgv(mount_point, "xfce4-genmon-plugin")]

\* What configure_battery_monitor can give: False when pacman exits non-zero,
\* else True or False (the script could not be written).
BatteryMonitorOutcomes(rcs) ==
    IF AllZero(rcs) THEN {"ok", "fail", "raise"} ELSE {"fail"}

----------------------------------------------------------------------------
\* Control flow of InstallationExecutor.execute

\* Mutant of Gate: the result of format_partitions is not checked.
GateIgnoreFormat(op, ok, nextPc) ==
    IF ok \/ op = "format_partitions"
    THEN pc' = nextPc /\ ret' = ret
    ELSE pc' = "done" /\ ret' = "False"

\* Mutant of Gate: the result of partition_device is not checked.
GateIgnorePartition(op, ok, nextPc) ==
    IF ok \/ op = "partition_device"
    THEN pc' = nextPc /\ ret' = ret
    ELSE pc' = "done" /\ ret' = "False"

\* Mutant of Gate: the result of install_bootloader is not checked.
GateIgnoreBootloader(op, ok, nextPc) ==
    IF ok \/ op = "install_bootloader"
    THEN pc' = nextPc /\ ret' = ret
    ELSE pc' = "done" /\ ret' = "False"

\* Mutant of Gate: the result of the kernel build is not checked.
GateIgnoreKernelBuild(op, ok, nextPc) ==
    IF ok \/ op = "kernel_builder.build"
    THEN pc' = nextPc /\ ret' = ret
    ELSE pc' = "done" /\ ret' = "False"

\* Mutant of Gate: a failed gating operation is tried again.
GateRetry(op, ok, nextPc) ==
    IF ok
    THEN pc' = nextPc /\ ret' = ret
    ELSE pc' = pc /\ ret' = ret

\* `if not <stage>: return False' outside the try/finally: a failed gating
\* operation makes execute return False at once.
Gate(op, ok, nextPc) ==
    IF ok
    THEN pc' = nextPc /\ ret' = ret
    ELSE pc' = "done" /\ ret' = "False"

\* Mutant of GuardedGate: no try/finally around the install stages.
GuardedGateNoFinally(ok, nextPc) ==
    /\ retPending' = retPending
    /\ IF ok
       THEN pc' = nextPc /\ ret' = ret
       ELSE pc' = "done" /\ ret' = "False"

\* Mutant of GuardedGate: the failure is remembered but the next stage runs.
GuardedGateContinue(ok, nextPc) ==
    /\ pc' = nextPc
    /\ retPending' = IF ok THEN retPending ELSE "fail"
    /\ ret' = ret

\* `if not <stage>: return False' inside the try/finally: the return is held
\* while the finally clause runs unmount_partitions.
GuardedGate(ok, nextPc) ==
    /\ pc' = IF ok THEN nextPc ELSE "unmount"
    /\ retPending' = IF ok THEN retPending ELSE "fail"
    /\ ret' = ret

\* Mutant of FirstStage: skip_build is ignored.
FirstStageAlwaysBuild(skip) == "build_bootloader"

\* `if not skip_build: self._build_components()'.
FirstStage(skip) == IF skip THEN "partition" ELSE "build_bootloader"

\* Mutant of BootloaderBuilt: the kernel is built whatever the bootloader
\* build returned.
BootloaderBuiltUnchecked(outcome) == TRUE

\* `if not self.bootloader_builder.build(): return False' inside the try of
\* _build_components: the kernel build is reached only after a True.
BootloaderBuilt(outcome) == outcome = "ok"

\* Mutant of BestEffortContinues: a False from a best-effort step aborts.
BestEffortStrict(outcome) == outcome = "ok"

\* `if not <step>: logger.warning(...)': a best-effort step lets
\* _install_desktop go on unless it raises into the except clause.
BestEffortContinues(outcome) == outcome # "raise"

\* Mutant of FinalResult: a failed unmount fails the run.
FinalResultUnmountGating(pending, unmountRet) ==
    IF pending = "fail" \/ unmountRet # "ok" THEN "False" ELSE "True"

\* Mutant of FinalResult: the finally clause swallows the pending return.
FinalResultSwallow(pending, unmountRet) == "True"

\* Value execute returns after the finally clause: the pending return False
\* if there is one, else the `return True' that follows.
FinalResult(pending, unmountRet) ==
    IF pending = "fail" THEN "False" ELSE "True"

\* Mutant of ExecuteExcept: execute has no except clause of its own.
ExecuteExceptMissing == "raised"

\* `except Exception as e: ... return False' around the body of execute:
\* what a run ends with when an exception reaches that clause.
ExecuteExcept == "False"

\* Mutant of ExecuteArgs: skip_build is not passed on.
ExecuteArgsNoSkip(a) == [device |-> a.device, skip_build |-> FALSE]

\* executor.execute(args.device, args.skip_build)
ExecuteArgs(a) == [device |-> a.device, skip_build |-> a.skip_build]

\* Mutant of ExitCode: the result of execute is not looked at.
ExitCodeIgnoresResult(r) == 0

\* `if not executor.execute(...): return 1' ... `return 0'; an exception
\* leaving execute would reach `except Exception: return 1'.
ExitCode(r) == IF r = "True" THEN 0 ELSE 1

\* time.sleep(2): seconds the run waits for the partition table to settle.
SettleSeconds == 2

\* Mutant of Sleep: the run does not wait.
SleepSkipped(d) == d

\* time.sleep(2) between partition_device and format_partitions.
Sleep(d) == Append(d, SettleSeconds)

Call(ops) == calls' = calls \o ops

\* The commands cs were run and exited with the first Len(cs) codes of rcs.
Ran(cs, rcs) ==
    /\ cmds' = cmds \o cs
    /\ exits' = exits \o SubSeq(rcs, 1, Len(cs))

Record(op, outcome) == result' = [result EXCEPT ![op] = outcome]

StageReturns(stage, outcome) == stageRet' = [stageRet EXCEPT ![stage] = outcome]

----------------------------------------------------------------------------
\* A run of install_parabola about to start, the configuration and the
\* command line being inputs.
MainInit ==
    /\ pc = "idle"
    /\ device = ""
    /\ skip_build = FALSE
    /\ args \in [device : Devices, skip_build : BOOLEAN]
    /\ cli = "setup"
    /\ setupRet = "none"
    /\ exitCode = <<>>
    /\ delays = <<>>
    /\ envManager \in EnvManagers
    /\ calls = <<>>
    /\ result = [op \in Ops |-> "none"]
    /\ stageRet = [s \in Stages |-> "none"]
    /\ mount_points = <<>>
    /\ mountArg = <<>>
    /\ mounted = {}
    /\ mountedEver = {}
    /\ unmountArg = <<>>
    /\ umountTried = {}
    /\ cmds = <<>>
    /\ retPending = "none"
    /\ ret = "none"
    /\ layoutCfg \in LayoutConfigs
    /\ fsCfg \in Ext4ParamConfigs
    /\ fsTypes \in FsTypeConfigs
    /\ desktopCfg \in DesktopConfigs
    /\ script = <<>>
    /\ fdiskStdin = <<>>
    /\ exits = <<>>
    /\ argv = <<>>
    /\ bootloaderArg = ""
    /\ bootRO = "ro"
    /\ tempFile = "none"
    /\ installArg = <<>>
    /\ desktopArg = <<>>

Init == MainInit /\ SideIdle

\* install_parabola up to the call of execute: load the configuration, build
\* the environment manager, set the environment up; `return 1' when that
\* fails or raises.
InstallParabolaSetup ==
    /\ cli = "setup"
    /\ \E o \in Outcomes :
        /\ setupRet' = o
        /\ IF o = "ok"
           THEN /\ cli' = "execute"
                /\ pc' = "start"
                /\ device' = ExecuteArgs(args).device
                /\ skip_build' = ExecuteArgs(args).skip_build
                /\ exitCode' = exitCode
           ELSE /\ cli' = "returned"
                /\ exitCode' = Append(exitCode, 1)
                /\ UNCHANGED <<pc, device, skip_build>>
    /\ UNCHANGED <<envManager, calls, result, stageRet, mount_points, mountArg,
                   mounted, mountedEver, unmountArg, umountTried, cmds,
                   retPending, ret, cfgVars, sideVars, desktopArg, installArg, tempFile, script, fdiskStdin, exits, argv,
                   bootloaderArg, bootRO, delays>>

\* install_parabola after execute returned: `return 1' if not execute(...),
\* else `return 0'.
InstallParabolaReturn ==
    /\ cli = "execute"
    /\ pc = "done"
    /\ cli' = "returned"
    /\ exitCode' = Append(exitCode, ExitCode(ret))
    /\ UNCHANGED <<pc, device, skip_build, envManager, calls, result, stageRet,
                   mount_points, mountArg, mounted, mountedEver, unmountArg,
                   umountTried, cmds, retPending, ret, cfgVars, sideVars, desktopArg, installArg, tempFile, script,
                   fdiskStdin, exits, argv, bootloaderArg, bootRO, setupRet, delays>>

\* execute entered: `if not skip_build'.
Start ==
    /\ pc = "start"
    /\ pc' = FirstStage(skip_build)
    /\ UNCHANGED <<device, skip_build, envManager, calls, result, stageRet,
                   mount_points, mountArg, mounted, mountedEver, unmountArg,
                   umountTried, cmds, retPending, ret>>
    /\ UNCHANGED <<cfgVars, cliVars, sideVars, desktopArg, installArg, tempFile, delays, script, fdiskStdin, exits, argv, bootloaderArg, bootRO>>

\* _build_components, first half: bootloader_builder.build().
BuildBootloader ==
    /\ pc = "build_bootloader"
    /\ \E o \in Outcomes :
        /\ Call(<<"bootloader_builder.build">>)
        /\ Record("bootloader_builder.build", o)
        /\ stageRet' = IF o = "ok" THEN stageRet
                       ELSE [stageRet EXCEPT !["_build_components"] = "fail"]
        /\ Gate("bootloader_builder.build", BootloaderBuilt(o), "build_kernel")
    /\ UNCHANGED <<device, skip_build, envManager, mount_points, mountArg,
                   mounted, mountedEver, unmountArg, umountTried, cmds,
                   retPending>>
    /\ UNCHANGED <<cfgVars, cliVars, sideVars, desktopArg, installArg, tempFile, delays, script, fdiskStdin, exits, argv, bootloaderArg, bootRO>>

\* _build_components, second half: kernel_builder.build().
BuildKernel ==
    /\ pc = "build_kernel"
    /\ \E o \in Outcomes :
        /\ Call(<<"kernel_builder.build">>)
        /\ Record("kernel_builder.build", o)
        /\ StageReturns("_build_components", IF o = "ok" THEN "ok" ELSE "fail")
        /\ Gate("kernel_builder.build", o = "ok", "partition")
    /\ UNCHANGED <<device, skip_build, envManager, mount_points, mountArg,
                   mounted, mountedEver, unmountArg, umountTried, cmds,
                   retPending>>
    /\ UNCHANGED <<cfgVars, cliVars, sideVars, desktopArg, installArg, tempFile, delays, script, fdiskStdin, exits, argv, bootloaderArg, bootRO>>

\* _partition_and_format, first half: partition_manager.partition_device.
PartitionDevice ==
    /\ pc = "partition"
    /\ \E rc \in RC :
        LET r == PartitionDeviceRet(envManager, rc) IN
        /\ Call(<<"partition_device">>)
        /\ script' = PartitionScript(layoutCfg)
        /\ Ran(PartitionDeviceCmds(envManager), <<rc>>)
        /\ argv' = argv \o PartitionDeviceArgv(envManager, device)
        /\ fdiskStdin' = PartitionDeviceStdin(envManager, script')
        /\ tempFile' = PartitionDeviceTempFile(r)
        /\ Record("partition_device", r)
        /\ stageRet' = IF r = "ok" THEN stageRet
                       ELSE [stageRet EXCEPT !["_partition_and_format"] = "fail"]
        /\ Gate("partition_device", r = "ok", "settle")
    /\ UNCHANGED <<device, skip_build, envManager, mount_points, mountArg,
                   mounted, mountedEver, unmountArg, umountTried, retPending>>
    /\ UNCHANGED <<cfgVars, cliVars, sideVars, desktopArg, installArg, delays, bootloaderArg, bootRO>>

\* _partition_and_format: time.sleep(2).
SettleDelay ==
    /\ pc = "settle"
    /\ Call(<<"sleep">>)
    /\ Record("sleep", "ok")
    /\ pc' = "format"
    /\ delays' = Sleep(delays)
    /\ UNCHANGED <<device, skip_build, envManager, stageRet, mount_points,
                   mountArg, mounted, mountedEver, unmountArg, umountTried,
                   cmds, retPending, ret>>
    /\ UNCHANGED <<cfgVars, cliVars, sideVars, desktopArg, installArg, tempFile, script, fdiskStdin, exits, argv, bootloaderArg, bootRO>>

\* _partition_and_format, second half: partition_manager.format_partitions.
FormatPartitions ==
    /\ pc = "format"
    /\ \E rcs \in [1..NumPartitions -> RC] :
        LET r == FormatPartitionsRet(rcs) IN
        /\ Call(<<"format_partitions">>)
        /\ Ran(FormatPartitionsCmds(rcs), rcs)
        /\ argv' = argv \o FormatPartitionsArgv(device, fsCfg,
                                                Len(FormatPartitionsCmds(rcs)))
        /\ Record("format_partitions", r)
        /\ StageReturns("_partition_and_format", r)
        /\ Gate("format_partitions", r = "ok", "install_bootloader")
    /\ UNCHANGED <<device, skip_build, envManager, mount_points, mountArg,
                   mounted, mountedEver, unmountArg, umountTried, retPending>>
    /\ UNCHANGED <<cfgVars, cliVars, sideVars, desktopArg, installArg, tempFile, delays, script, fdiskStdin, bootloaderArg, bootRO>>

\* _install_bootloader: get_output_path, then install_bootloader.
InstallBootloader ==
    /\ pc = "install_bootloader"
    /\ \E rcs \in [1..4 -> RC] :
        LET r == InstallBootloaderRet(rcs) IN
        /\ Call(<<"get_output_path", "install_bootloader">>)
        /\ bootloaderArg' = BootloaderOutputPath
        /\ Ran(InstallBootloaderCmds(rcs), rcs)
        /\ argv' = argv \o InstallBootloaderArgv(device, bootloaderArg',
                                                 Len(InstallBootloaderCmds(rcs)))
        /\ bootRO' = BootRegionAfter(bootRO, InstallBootloaderCmds(rcs), rcs)
        /\ result' = [result EXCEPT !["get_output_path"] = "ok",
                                    !["install_bootloader"] = r]
        /\ StageReturns("_install_bootloader", r)
        /\ Gate("install_bootloader", r = "ok", "create_mount_points")
    /\ UNCHANGED <<device, skip_build, envManager, mount_points, mountArg,
                   mounted, mountedEver, unmountArg, umountTried, retPending>>
    /\ UNCHANGED <<cfgVars, cliVars, sideVars, desktopArg, installArg, tempFile, delays, script, fdiskStdin>>

\* _create_mount_points: builds the dict and the directories; an OSError
\* from os.makedirs reaches the except clause of execute.
CreateMountPoints ==
    /\ pc = "create_mount_points"
    /\ \E o \in {"ok", "raise"} :
        /\ Call(<<"_create_mount_points">>)
        /\ Record("_create_mount_points", o)
        /\ mount_points' = IF o = "ok" THEN CreateMountPointsDict ELSE mount_points
        /\ pc' = IF o = "ok" THEN "mount" ELSE "done"
        /\ ret' = IF o = "ok" THEN ret ELSE ExecuteExcept
    /\ UNCHANGED <<device, skip_build, envManager, stageRet, mountArg,
                   mounted, mountedEver, unmountArg, umountTried, cmds,
                   retPending>>
    /\ UNCHANGED <<cfgVars, cliVars, sideVars, desktopArg, installArg, tempFile, delays, script, fdiskStdin, exits, argv, bootloaderArg, bootRO>>

\* partition_manager.mount_partitions(device, mount_points).
MountPartitions ==
    /\ pc = "mount"
    /\ \E rcs \in [1..Len(mount_points) -> RC] :
        LET r == MountPartitionsRet(rcs) IN
        /\ Call(<<"mount_partitions">>)
        /\ Ran(MountPartitionsCmds(mount_points, rcs), rcs)
        /\ argv' = argv \o MountPartitionsArgv(device, mount_points,
                                Len(MountPartitionsCmds(mount_points, rcs)))
        /\ mountArg' = [i \in 1..Len(mount_points) |-> mount_points[i].path]
        /\ mounted' = mounted \cup MountPartitionsMounted(mount_points, rcs)
        /\ mountedEver' = mountedEver \cup MountPartitionsMounted(mount_points, rcs)
        /\ Record("mount_partitions", r)
        /\ StageReturns("mount_partitions", r)
        /\ Gate("mount_partitions", r = "ok", "install_system")
    /\ UNCHANGED <<device, skip_build, envManager, mount_points, unmountArg,
                   umountTried, retPending>>
    /\ UNCHANGED <<cfgVars, cliVars, sideVars, desktopArg, installArg, tempFile, delays, script, fdiskStdin, bootloaderArg, bootRO>>

\* _install_system: get_output_paths, then system_installer.install; an
\* exception is caught by _install_system and becomes False.
InstallSystem ==
    /\ pc = "install_system"
    /\ \E o \in Outcomes :
        /\ Call(<<"get_output_paths", "system_installer.install">>)
        /\ result' = [result EXCEPT !["get_output_paths"] = "ok",
                                    !["system_installer.install"] = o]
        /\ installArg' = mount_points
        /\ StageReturns("_install_system", IF o = "ok" THEN "ok" ELSE "fail")
        /\ GuardedGate(o = "ok", "desktop_install")
    /\ UNCHANGED <<device, skip_build, envManager, mount_points, mountArg,
                   mounted, mountedEver, unmountArg, umountTried, cmds>>
    /\ UNCHANGED <<cfgVars, cliVars, sideVars, desktopArg, tempFile, delays, script, fdiskStdin, exits, argv, bootloaderArg, bootRO>>

\* _install_desktop: desktop_configurator.install(mount_points[2]).
DesktopInstall ==
    /\ pc = "desktop_install"
    /\ \E rcs \in [1..Len(DesktopPackages) -> RC] :
       \E o \in DesktopInstallOutcomes(Environment(desktopCfg), rcs) :
        LET mp == mount_points[DictGet(mount_points, 2)].path
            cs == DesktopInstallCmds(Environment(desktopCfg), mp, o, rcs)
        IN
        /\ Call(<<"desktop_configurator.install">>)
        /\ Ran(cs, rcs)
        /\ argv' = argv \o DesktopInstallArgv(mp, Len(cs))
        /\ Record("desktop_configurator.install", o)
        /\ desktopArg' = Append(desktopArg, mp)
        /\ stageRet' = IF o = "ok" THEN stageRet
                       ELSE [stageRet EXCEPT !["_install_desktop"] = "fail"]
        /\ GuardedGate(o = "ok", "battery_monitor")
    /\ UNCHANGED <<device, skip_build, envManager, mount_points, mountArg,
                   mounted, mountedEver, unmountArg, umountTried>>
    /\ UNCHANGED <<cfgVars, cliVars, sideVars, installArg, tempFile, delays, script, fdiskStdin, bootloaderArg, bootRO>>

\* A best-effort step of _install_desktop; after the last one the stage
\* returns True.
BestEffortStep(op, o, nextPc) ==
    /\ Call(<<op>>)
    /\ desktopArg' = Append(desktopArg, mount_points[DictGet(mount_points, 2)].path)
    /\ Record(op, o)
    /\ stageRet' = IF ~BestEffortContinues(o)
                   THEN [stageRet EXCEPT !["_install_desktop"] = "fail"]
                   ELSE IF nextPc = "unmount"
                   THEN [stageRet EXCEPT !["_install_desktop"] = "ok"]
                   ELSE stageRet
    /\ GuardedGate(BestEffortContinues(o), nextPc)

\* A best-effort step of the system installer: it runs no command through
\* run_command.
BestEffort(here, op, nextPc) ==
    /\ pc = here
    /\ \E o \in Outcomes : BestEffortStep(op, o, nextPc)
    /\ UNCHANGED <<device, skip_build, envManager, mount_points, mountArg,
                   mounted, mountedEver, unmountArg, umountTried, cmds>>
    /\ UNCHANGED <<cfgVars, cliVars, sideVars, installArg, tempFile, delays, script, fdiskStdin, exits, argv, bootloaderArg, bootRO>>

\* desktop_configurator.configure_battery_monitor(mount_points[2]).
ConfigureBatteryMonitor ==
    /\ pc = "battery_monitor"
    /\ \E rcs \in [1..1 -> RC] :
       \E o \in BatteryMonitorOutcomes(rcs) :
        LET mp == mount_points[DictGet(mount_points, 2)].path
            cs == BatteryMonitorCmds(mp, o)
        IN
        /\ BestEffortStep("configure_battery_monitor", o, "auto_login")
        /\ Ran(cs, rcs)
        /\ argv' = argv \o BatteryMonitorArgv(mp, Len(cs))
    /\ UNCHANGED <<device, skip_build, envManager, mount_points, mountArg,
                   mounted, mountedEver, unmountArg, umountTried>>
    /\ UNCHANGED <<cfgVars, cliVars, sideVars, installArg, tempFile, delays, script, fdiskStdin, bootloaderArg, bootRO>>

ConfigureAutoLogin ==
    BestEffort("auto_login", "configure_auto_login", "shutdown")

ConfigureShutdown ==
    BestEffort("shutdown", "configure_shutdown", "unmount")

\* The finally clause and the return that follows it:
\* unmount_partitions([mount_points[p] for p in sorted(keys, reverse=True)]).
UnmountPartitions ==
    /\ pc = "unmount"
    /\ LET paths == MountPointPaths(mount_points) IN
       \E rcs \in [1..Len(paths) -> RC] :
        LET r == UnmountPartitionsRet(rcs) IN
        /\ Call(<<"unmount_partitions">>)
        /\ unmountArg' = paths
        /\ Ran(UnmountPartitionsCmds(paths, rcs), rcs)
        /\ argv' = argv \o UnmountPartitionsArgv(paths,
                                Len(UnmountPartitionsCmds(paths, rcs)))
        /\ umountTried' = umountTried \cup {paths[i] : i \in 1..Attempts(rcs)}
        /\ mounted' = mounted \ UnmountPartitionsReleased(mount_points, paths, rcs)
        /\ Record("unmount_partitions", r)
        /\ ret' = FinalResult(retPending, r)
        /\ pc' = "done"
    /\ UNCHANGED <<device, skip_build, envManager, stageRet, mount_points,
                   mountArg, mountedEver, retPending>>
    /\ UNCHANGED <<cfgVars, cliVars, sideVars, desktopArg, installArg, tempFile, delays, script, fdiskStdin, bootloaderArg, bootRO>>

Next ==
    \/ InstallParabolaSetup
    \/ InstallParabolaReturn
    \/ Start
    \/ BuildBootloader
    \/ BuildKernel
    \/ PartitionDevice
    \/ SettleDelay
    \/ FormatPartitions
    \/ InstallBootloader
    \/ CreateMountPoints
    \/ MountPartitions
    \/ InstallSystem
    \/ DesktopInstall
    \/ ConfigureBatteryMonitor
    \/ ConfigureAutoLogin
    \/ ConfigureShutdown
    \/ UnmountPartitions

Spec == Init /\ [][Next]_vars

TypeOK ==
    /\ pc \in {"idle", "start", "build_bootloader", "build_kernel", "partition",
               "settle", "format", "install_bootloader", "create_mount_points",
               "mount", "install_system", "desktop_install", "battery_monitor",
               "auto_login", "shutdown", "unmount", "done"}
    /\ ret \in {"none", "True", "False"}
    /\ retPending \in {"none", "fail"}
    /\ mounted \subseteq 1..NumPartitions
    /\ (pc = "done") = (ret # "none")
    /\ cli \in {"setup", "execute", "returned"}
    /\ setupRet \in Outcomes \cup {"none"}
    /\ exitCode \in {<<>>, <<0>>, <<1>>}
    /\ (pc = "idle") => (device = "" /\ ~skip_build)
    /\ (pc # "idle") => device \in Devices

----------------------------------------------------------------------------
\* Vocabulary of the properties

Returned == ret # "none"

Failed(op) == result[op] \in {"fail", "raise"}

Reverse(q) == [i \in 1..Len(q) |-> q[Len(q) + 1 - i]]

\* The gating operations in the order execute reaches them.
GatingOrder == <<"bootloader_builder.build", "kernel_builder.build",
                 "partition_device", "format_partitions", "install_bootloader",
                 "mount_partitions", "system_installer.install",
                 "desktop_configurator.install">>

BestEffortOps == {"configure_battery_monitor", "configure_auto_login",
                  "configure_shutdown"}

\* Every gating operation that applies to the run was invoked and returned True.
AllGatingOk ==
    /\ skip_build \/ (/\ result["bootloader_builder.build"] = "ok"
                      /\ result["kernel_builder.build"] = "ok")
    /\ \A i \in 3..Len(GatingOrder) : result[GatingOrder[i]] = "ok"

----------------------------------------------------------------------------
\* C1: if mount_partitions returned True, unmount_partitions has been invoked
\* exactly once by the time execute returns, whatever the system and desktop
\* install stages did (success, failure, exception); it is never invoked
\* more than once.
C1_UnmountExactlyOnce ==
    /\ Count("unmount_partitions") <= 1
    /\ (Returned /\ result["mount_partitions"] = "ok")
          => Count("unmount_partitions") = 1

\* execute has returned after an exception inside the system install, with
\* the partitions mounted before and one unmount_partitions call made.
C1_Witness ==
    /\ Returned
    /\ result["mount_partitions"] = "ok"
    /\ result["system_installer.install"] = "raise"
    /\ Count("unmount_partitions") = 1

\* C2: when mount_partitions fails after having mounted some partition,
\* execute invokes unmount_partitions before it returns, so every partition
\* mounted in the run has had a umount attempt.
C2_PartialMountReleased ==
    (Returned /\ result["mount_partitions"] = "fail")
       => \A p \in mountedEver : MountPath(p) \in umountTried

\* C3: the list execute passes to unmount_partitions is [p3, p2, p1], the
\* reverse of the order in which mount_partitions was given and mounted the
\* mount points, also when the system install failed.
C3_UnmountReverseOrder ==
    Invoked("unmount_partitions") =>
        /\ unmountArg = <<MountPath(3), MountPath(2), MountPath(1)>>
        /\ mountArg = <<MountPath(1), MountPath(2), MountPath(3)>>
        /\ unmountArg = Reverse(mountArg)

\* unmount_partitions was invoked after a failed system install.
C3_Witness ==
    /\ Invoked("unmount_partitions")
    /\ result["system_installer.install"] = "fail"
    /\ Len(unmountArg) = NumPartitions

\* C4: mount_partitions is invoked only after partition_device and then
\* format_partitions were invoked and returned True in the same run.
C4_MountAfterFormat ==
    Invoked("mount_partitions") =>
        /\ result["partition_device"] = "ok"
        /\ result["format_partitions"] = "ok"
        /\ Pos("partition_device") < Pos("format_partitions")
        /\ Pos("format_partitions") < Pos("mount_partitions")

\* mount_partitions has been invoked.
C4_Witness ==
    /\ Invoked("mount_partitions")
    /\ result["format_partitions"] = "ok"

\* C5: when partition_device returns False, none of format_partitions,
\* install_bootloader, mount_partitions, the installers and
\* unmount_partitions is invoked, and execute returns False.
C5_PartitionFailureShortCircuits ==
    result["partition_device"] = "fail" =>
        /\ ret = "False"
        /\ \A op \in {"format_partitions", "install_bootloader",
                      "mount_partitions", "system_installer.install",
                      "desktop_configurator.install", "unmount_partitions"} :
              ~Invoked(op)

\* fdisk ran and exited non-zero, and execute returned.
C5_Witness ==
    /\ result["partition_device"] = "fail"
    /\ envManager = "StdinRunner"
    /\ Len(cmds) = 1
    /\ Returned

\* C6: once a gating operation has failed, no later gating operation is
\* invoked, the only operation that may follow it is unmount_partitions
\* (and only after a successful mount), and execute returns False.
C6_GatingFailureShortCircuits ==
    \A i \in 1..Len(GatingOrder) :
        Failed(GatingOrder[i]) =>
            /\ \A j \in (i+1)..Len(GatingOrder) : ~Invoked(GatingOrder[j])
            /\ \A k \in (Pos(GatingOrder[i]) + 1)..Len(calls) :
                  calls[k] = "unmount_partitions"
            /\ Invoked("unmount_partitions") => result["mount_partitions"] = "ok"
            /\ Returned => ret = "False"

\* The system install failed and execute returned after unmounting.
C6_Witness ==
    /\ result["system_installer.install"] = "fail"
    /\ Invoked("unmount_partitions")
    /\ ret = "False"

\* C7: when every gating operation succeeded and the three best-effort steps
\* returned (True or False, in any combination), execute returns True.
C7_BestEffortIsolation ==
    (/\ Returned
     /\ AllGatingOk
     /\ \A op \in BestEffortOps : result[op] \in {"ok", "fail"})
       => ret = "True"

\* The three best-effort steps all returned False and execute returned True.
C7_Witness ==
    /\ ret = "True"
    /\ \A op \in BestEffortOps : result[op] = "fail"

\* C8: a failure of SystemInstaller.install or of DesktopConfigurator.install
\* makes execute return False, whatever unmount_partitions returns.
C8_InstallFailureFailsRun ==
    (/\ Returned
     /\ \/ Failed("system_installer.install")
        \/ Failed("desktop_configurator.install"))
       => ret = "False"

\* The desktop install failed, the unmount succeeded, execute returned False.
C8_Witness ==
    /\ result["desktop_configurator.install"] = "fail"
    /\ result["unmount_partitions"] = "ok"
    /\ ret = "False"

\* C9: execute returns True only if every applicable gating operation was
\* invoked and returned True (the two builds unless skip_build).
C9_TrueOnlyIfAllGatingOk ==
    ret = "True" =>
        /\ AllGatingOk
        /\ \A i \in 3..Len(GatingOrder) : Count(GatingOrder[i]) = 1
        /\ ~skip_build => /\ Count("bootloader_builder.build") = 1
                          /\ Count("kernel_builder.build") = 1

\* execute returned True in a run that built the components.
C9_Witness ==
    /\ ret = "True"
    /\ ~skip_build

\* C10: the value unmount_partitions returns does not influence the result:
\* once the finally clause has run, execute returns True exactly when the
\* system and desktop install stages returned True, and in particular when
\* every gating stage returned True and the unmount failed.
C10_UnmountResultIgnored ==
    (Returned /\ Invoked("unmount_partitions")) =>
        (ret = "True") = (/\ stageRet["_install_system"] = "ok"
                          /\ stageRet["_install_desktop"] = "ok")

\* The unmount failed on its first path and execute still returned True.
C10_Witness ==
    /\ ret = "True"
    /\ result["unmount_partitions"] = "fail"
    /\ \A s \in Stages \ {"_build_components"} : stageRet[s] = "ok"

\* C11: unmount_partitions runs a umount on every path of the list it is
\* given; a umount that fails does not stop the attempts on the remaining
\* paths.
C11_UnmountAttemptsEveryPath ==
    Invoked("unmount_partitions") =>
        umountTried = {unmountArg[i] : i \in 1..Len(unmountArg)}

\* Membership of the gating operations and of the unmount.
IsGatingOp(op) == \E i \in 1..Len(GatingOrder) : GatingOrder[i] = op

IsPrefix(a, b) == Len(a) <= Len(b) /\ a = SubSeq(b, 1, Len(a))

\* The gating operations that apply to the run, in order.
ExpectedOrder ==
    IF skip_build THEN SubSeq(GatingOrder, 3, Len(GatingOrder)) ELSE GatingOrder

\* C12: the gating operations invoked by a run are a prefix of the fixed
\* order build (bootloader, kernel), partition_device, format_partitions,
\* install_bootloader, mount_partitions, SystemInstaller.install,
\* DesktopConfigurator.install; unmount_partitions comes last and only after
\* a successful mount; no operation is invoked twice; a run that returns
\* True invoked every applicable operation; install_bootloader receives the
\* bootloader builder's output path.
C12_LinearPipeline ==
    LET g == SelectSeq(calls, IsGatingOp) IN
    /\ IsPrefix(g, ExpectedOrder)
    /\ \A op \in Ops : Count(op) <= 1
    /\ Invoked("unmount_partitions") =>
          /\ result["mount_partitions"] = "ok"
          /\ calls[Len(calls)] = "unmount_partitions"
    /\ (Returned /\ result["mount_partitions"] = "ok") =>
          calls[Len(calls)] = "unmount_partitions"
    /\ ret = "True" => g = ExpectedOrder
    /\ Invoked("install_bootloader") =>
          /\ Pos("get_output_path") + 1 = Pos("install_bootloader")
          /\ bootloaderArg = "output/bootloader/u-boot.imx"

\* A run with the build stage in which every stage succeeded.
C12_Witness ==
    /\ ret = "True"
    /\ ~skip_build
    /\ SelectSeq(calls, IsGatingOp) = GatingOrder
    /\ bootloaderArg = "output/bootloader/u-boot.imx"

\* C13: the build stage builds the bootloader, then the kernel; a failed
\* bootloader build means the kernel build is not attempted and the stage
\* fails; the stage succeeds only if both builds returned True.
C13_BuildStage ==
    /\ Invoked("kernel_builder.build") =>
          /\ result["bootloader_builder.build"] = "ok"
          /\ Pos("bootloader_builder.build") < Pos("kernel_builder.build")
    /\ Failed("bootloader_builder.build") =>
          /\ ~Invoked("kernel_builder.build")
          /\ stageRet["_build_components"] = "fail"
    /\ stageRet["_build_components"] = "ok" =>
          /\ result["bootloader_builder.build"] = "ok"
          /\ result["kernel_builder.build"] = "ok"

\* The bootloader build failed and the run ended without a kernel build.
C13_Witness ==
    /\ result["bootloader_builder.build"] = "fail"
    /\ stageRet["_build_components"] = "fail"
    /\ Returned

\* C14: with skip_build neither build is invoked and partition_device is the
\* first operation; without it partition_device is invoked only after both
\* builds returned True.
C14_SkipBuild ==
    /\ skip_build =>
          /\ ~Invoked("bootloader_builder.build")
          /\ ~Invoked("kernel_builder.build")
          /\ calls # <<>> => calls[1] = "partition_device"
    /\ (~skip_build /\ Invoked("partition_device")) =>
          /\ result["bootloader_builder.build"] = "ok"
          /\ result["kernel_builder.build"] = "ok"
          /\ Pos("kernel_builder.build") < Pos("partition_device")

\* partition_device was invoked as the first operation of a skip_build run.
C14_Witness ==
    /\ skip_build
    /\ Invoked("partition_device")

\* C15: whatever the layout, the command file of partition_device makes a
\* new partition table and then exactly three primary partitions 1, 2, 3 in
\* that order: a bootable FAT32-LBA partition of fat_size MiB, a system
\* partition of system_size GiB and the home partition, which takes the rest
\* of the disk when home_size = 0 and home_size GiB when home_size > 0.
C15_PartitionLayout ==
    Invoked("partition_device") =>
        LET t == Fdisk(script)
            fat_size == Get(layoutCfg, "fat_size", 20)
            system_size == Get(layoutCfg, "system_size", 2)
            home_size == Get(layoutCfg, "home_size", 0)
        IN  /\ script[1].text = "o"
            /\ t.ok /\ t.fresh /\ t.written
            /\ Len(t.table) = 3
            /\ t.table[1] = [num |-> 1, size |-> [unit |-> "MiB", n |-> fat_size],
                             type |-> "c", boot |-> TRUE]
            /\ t.table[2] = [num |-> 2, size |-> [unit |-> "GiB", n |-> system_size],
                             type |-> "83", boot |-> FALSE]
            /\ t.table[3].num = 3
            /\ t.table[3].type = "83" /\ ~t.table[3].boot
            /\ home_size = 0 => t.table[3].size.unit = "rest"
            /\ home_size > 0 => t.table[3].size = [unit |-> "GiB", n |-> home_size]

\* partition_device wrote its command file for a layout that sets home_size
\* to 0 explicitly and the other sizes to non-default values.
C15_Witness ==
    /\ Invoked("partition_device")
    /\ Len(script) = 20
    /\ layoutCfg.home_size = {0}
    /\ layoutCfg.fat_size = {64}
    /\ layoutCfg.system_size = {4}

\* Indices of the commands of cmds run with one of the given tools, in order.
IndicesOf(tools) ==
    LET Is(i) == cmds[i].tool \in tools
    IN  SelectSeq([i \in 1..Len(cmds) |-> i], Is)

\* C16: with the repository's command runner, partition_device runs one
\* fdisk on the device with the command file as its standard input, and
\* returns True exactly when that fdisk exits 0.
C16_FdiskFedWithScript ==
    (envManager = "CrossEnvManager" /\ Invoked("partition_device")) =>
        LET f == IndicesOf({"fdisk"}) IN
        /\ Len(f) = 1
        /\ argv[f[1]].target = Plain(device)
        /\ fdiskStdin = script
        /\ (result["partition_device"] = "ok") = (exits[f[1]] = 0)

\* C17: format_partitions formats p1, p2, p3 in that order, stops at the
\* first mkfs that exits non-zero and then returns False; it returns True
\* only if the three commands exited 0.
C17_FormatStopsAtFirstFailure ==
    Invoked("format_partitions") =>
        LET f == IndicesOf({"mkfs.vfat", "mkfs.ext4"})
            n == Len(f)
        IN  /\ n \in 1..3
            /\ \A k \in 1..n :
                  /\ cmds[f[k]].part = k
                  /\ argv[f[k]].target = Node(device, PartSuffix(k))
                  /\ k < n => exits[f[k]] = 0
            /\ (result["format_partitions"] = "ok")
                  = (n = 3 /\ \A k \in 1..n : exits[f[k]] = 0)
            /\ (result["format_partitions"] = "fail") = (exits[f[n]] # 0)

\* Formatting p1 succeeded, formatting p2 failed, p3 was not attempted.
C17_Witness ==
    /\ result["format_partitions"] = "fail"
    /\ Len(IndicesOf({"mkfs.vfat", "mkfs.ext4"})) = 2

\* C18: p1 is formatted with the FAT tool; p2 and p3 are formatted with the
\* same mkfs.ext4 command line (features ^64bit, ^metadata_csum, uninit_bg;
\* journal size, block size, inode ratio and inode size as configured),
\* differing only in the partition node.
C18_SameExt4Command ==
    \A i \in 1..Len(argv) :
        /\ argv[i].target = Node(device, "p1") /\ cmds[i].tool # "mount"
              => argv[i].tool = "mkfs.vfat"
        /\ argv[i].tool = "mkfs.ext4" =>
              /\ argv[i].target \in {Node(device, "p2"), Node(device, "p3")}
              /\ argv[i].flags = <<"^64bit", "^metadata_csum", "uninit_bg">>
              /\ argv[i].nums = << Get(fsCfg, "journal_size", 4),
                                   Get(fsCfg, "block_size", 1024),
                                   Get(fsCfg, "inode_ratio", 4096),
                                   Get(fsCfg, "inode_size", 128) >>
              /\ \A j \in 1..Len(argv) :
                    argv[j].tool = "mkfs.ext4" =>
                        [argv[j] EXCEPT !.target = argv[i].target] = argv[i]

\* The three partitions were formatted with non-default tuning parameters.
C18_Witness ==
    /\ result["format_partitions"] = "ok"
    /\ Len(IndicesOf({"mkfs.ext4"})) = 2
    /\ fsCfg.journal_size = {8}
    /\ fsCfg.inode_ratio = {8192}

\* C19: install_bootloader runs, in this order, the disabling of read-only
\* mode, the zeroing of 4096 sectors of 512 bytes, the write of the image at
\* sector 2 and the re-enabling of read-only mode; a command that exits
\* non-zero is the last one and makes it return False; a dd on the boot
\* region is preceded by a successful disabling of read-only mode.
C19_BootloaderSequence ==
    Invoked("install_bootloader") =>
        LET b == IndicesOf({"force_ro=0", "dd_zero", "dd_image", "force_ro=1"})
            n == Len(b)
            boot0 == Node(device, "boot0")
            force_ro == Node(Basename(device), "boot0/force_ro")
        IN  /\ n \in 1..4
            /\ \A k \in 1..n :
                  /\ cmds[b[k]].tool = BootloaderTools[k]
                  /\ k < n => exits[b[k]] = 0
            /\ argv[b[1]] = Argv("sh", Plain("echo 0"), force_ro, <<>>, <<>>)
            /\ n >= 2 => argv[b[2]] = Argv("dd", Plain("/dev/zero"), boot0,
                                           <<"bs", "count">>, <<512, 4096>>)
            /\ n >= 3 => argv[b[3]] = Argv("dd", Plain(bootloaderArg), boot0,
                                           <<"bs", "seek">>, <<512, 2>>)
            /\ n >= 4 => argv[b[4]] = Argv("sh", Plain("echo 1"), force_ro, <<>>, <<>>)
            /\ (result["install_bootloader"] = "ok")
                  = (n = 4 /\ \A k \in 1..n : exits[b[k]] = 0)
            /\ (result["install_bootloader"] = "fail") = (exits[b[n]] # 0)
            /\ \A k \in 1..n :
                  argv[b[k]].tool = "dd" =>
                      \E j \in 1..(k-1) : cmds[b[j]].tool = "force_ro=0"
                                           /\ exits[b[j]] = 0

\* The zeroing failed: two commands were run and install_bootloader failed.
C19_Witness ==
    /\ result["install_bootloader"] = "fail"
    /\ Len(IndicesOf({"force_ro=0", "dd_zero", "dd_image", "force_ro=1"})) = 2

\* A command of the given tool was run and exited non-zero.
CmdFailed(tool) ==
    \E i \in 1..Len(cmds) : cmds[i].tool = tool /\ exits[i] # 0

\* C20: when the zeroing or the write of the image fails after read-only
\* mode was disabled, install_bootloader returns False without running the
\* re-enabling command, and execute returns False with the boot region left
\* writable.
C20_BootRegionLeftWritable ==
    (CmdFailed("dd_zero") \/ CmdFailed("dd_image")) =>
        /\ result["install_bootloader"] = "fail"
        /\ IndicesOf({"force_ro=1"}) = <<>>
        /\ bootRO = "rw"
        /\ ret = "False"

\* execute has returned after a failed write of the image, boot0 writable.
C20_Witness ==
    /\ Returned
    /\ CmdFailed("dd_image")
    /\ bootRO = "rw"

\* C21: mount_partitions mounts <device>p1, p2, p3 in that order, each at its
\* own mount point; it stops at the first mount that exits non-zero, returns
\* False then, attempts no later mount and leaves the partitions it has
\* mounted mounted.
C21_MountStopsAtFirstFailure ==
    Invoked("mount_partitions") =>
        LET m == IndicesOf({"mount"})
            n == Len(m)
        IN  /\ n \in 1..NumPartitions
            /\ \A k \in 1..n :
                  /\ cmds[m[k]].part = k
                  /\ argv[m[k]].src = Node(device, PartSuffix(k))
                  /\ argv[m[k]].target = Plain(MountPath(k))
                  /\ k < n => exits[m[k]] = 0
            /\ (result["mount_partitions"] = "ok")
                  = (n = NumPartitions /\ \A k \in 1..n : exits[m[k]] = 0)
            /\ (result["mount_partitions"] = "fail") = (exits[m[n]] # 0)
            /\ result["mount_partitions"] = "fail" =>
                  /\ mounted = 1..(n - 1)
                  /\ Returned /\ ret = "False"
            /\ (result["mount_partitions"] = "ok"
                    /\ ~Invoked("unmount_partitions")) =>
                  mounted = 1..NumPartitions

\* p1 and p2 were mounted, mounting p3 failed.
C21_Witness ==
    /\ result["mount_partitions"] = "fail"
    /\ Len(IndicesOf({"mount"})) = 3
    /\ mounted = {1, 2}

\* An exception was raised inside execute: by a builder, by the creation of
\* the mount points, by an installer or a configuration step, or by the
\* command runner inside partition_device.
Raised ==
    \/ \E op \in Ops : result[op] = "raise"
    \/ RunCommandRaises(envManager, TRUE) /\ Invoked("partition_device")

\* C22: no exception leaves execute: once a collaborator call has raised,
\* nothing but the pending unmount is left to run and execute returns
\* False; every run ends with True or False.
C22_NoFaultPropagates ==
    /\ Returned => ret \in {"True", "False"}
    /\ Raised =>
          /\ pc \in {"unmount", "done"}
          /\ Returned => ret = "False"

\* The creation of the mount points raised, outside every stage method, and
\* execute returned.
C22_Witness ==
    /\ result["_create_mount_points"] = "raise"
    /\ Returned

\* C23: install_parabola returns 0 exactly when execute was invoked with
\* args.device and args.skip_build and returned True, and 1 when execute
\* returned False; when the environment set-up fails or raises, execute is
\* never invoked and the exit code is 1.
C23_ExitCode ==
    /\ (cli = "returned") = (exitCode # <<>>)
    /\ pc # "idle" =>
          /\ setupRet = "ok"
          /\ device = args.device
          /\ skip_build = args.skip_build
    /\ (exitCode = <<0>>) = (cli = "returned" /\ pc # "idle" /\ ret = "True")
    /\ (cli = "returned" /\ ret = "False") => exitCode = <<1>>
    /\ setupRet \in {"fail", "raise"} =>
          /\ pc = "idle" /\ calls = <<>> /\ cmds = <<>>
          /\ exitCode = <<1>>

\* install_parabola returned 0 after a run of execute with skip_build.
C23_Witness ==
    /\ exitCode = <<0>>
    /\ args.skip_build
    /\ ret = "True"

\* C24: after a successful partition_device the run waits once, for 2
\* seconds, before format_partitions; format_partitions is never invoked
\* before that wait is over, and there is no wait when partition_device
\* failed.
C24_SettleDelay ==
    /\ Len(delays) = Count("sleep")
    /\ Count("sleep") <= 1
    /\ Invoked("sleep") =>
          /\ result["partition_device"] = "ok"
          /\ Pos("sleep") = Pos("partition_device") + 1
    /\ Invoked("format_partitions") =>
          /\ delays = <<2>>
          /\ Pos("format_partitions") = Pos("sleep") + 1
    /\ Failed("partition_device") => (~Invoked("sleep") /\ delays = <<>>)

\* format_partitions was invoked after the wait.
C24_Witness ==
    /\ Invoked("format_partitions")
    /\ delays = <<2>>

\* C25: format_partitions formats p2 with the tool of the configured
\* system_type and p3 with the tool of the configured home_type: mkfs.ext4
\* is run on a partition only if ext4 is the type configured for it.
C25_ConfiguredFilesystemType ==
    \A i \in 1..Len(cmds) :
        /\ (argv[i].tool = "mkfs.ext4" /\ argv[i].target = Node(device, "p2"))
              => SystemType(fsTypes) = "ext4"
        /\ (argv[i].tool = "mkfs.ext4" /\ argv[i].target = Node(device, "p3"))
              => HomeType(fsTypes) = "ext4"

\* C26 as stated: get_output_path is read only after the bootloader build
\* returned True in this run, get_output_paths only after the kernel build
\* did, with skip_build as well as without.
C26_OutputPathsAfterBuildInRun ==
    /\ Invoked("get_output_path") =>
          result["bootloader_builder.build"] = "ok"
    /\ Invoked("get_output_paths") =>
          result["kernel_builder.build"] = "ok"

\* C26, amended: without skip_build the output paths are read only after the
\* build of that builder returned True earlier in the run; with skip_build
\* no build is invoked in the run, whether or not the paths are read.
C26_OutputPathsAfterBuild ==
    /\ (~skip_build /\ Invoked("get_output_path")) =>
          /\ result["bootloader_builder.build"] = "ok"
          /\ Pos("bootloader_builder.build") < Pos("get_output_path")
    /\ (~skip_build /\ Invoked("get_output_paths")) =>
          /\ result["kernel_builder.build"] = "ok"
          /\ Pos("kernel_builder.build") < Pos("get_output_paths")
    /\ skip_build =>
          /\ ~Invoked("bootloader_builder.build")
          /\ ~Invoked("kernel_builder.build")

\* Both builds ran and the kernel output paths were read for the system
\* install.
C26_Witness ==
    /\ ~skip_build
    /\ pc # "idle"
    /\ Invoked("get_output_path")
    /\ Invoked("get_output_paths")

\* C27: the best-effort steps are attempted only after
\* desktop_configurator.install returned True and never after it failed; once
\* reached they are attempted in the order battery monitor, auto-login,
\* shutdown, each one whether the step before it returned True or False.
C27_BestEffortSteps ==
    /\ \A op \in BestEffortOps :
          /\ Count(op) <= 1
          /\ Invoked(op) =>
                /\ result["desktop_configurator.install"] = "ok"
                /\ Pos("desktop_configurator.install") < Pos(op)
    /\ Failed("desktop_configurator.install") =>
          \A op \in BestEffortOps : ~Invoked(op)
    /\ result["desktop_configurator.install"] = "ok" =>
          (Invoked("configure_battery_monitor") \/ pc = "battery_monitor")
    /\ result["configure_battery_monitor"] \in {"ok", "fail"} =>
          (Invoked("configure_auto_login") \/ pc = "auto_login")
    /\ result["configure_auto_login"] \in {"ok", "fail"} =>
          (Invoked("configure_shutdown") \/ pc = "shutdown")
    /\ Invoked("configure_auto_login") =>
          Pos("configure_auto_login") = Pos("configure_battery_monitor") + 1
    /\ Invoked("configure_shutdown") =>
          Pos("configure_shutdown") = Pos("configure_auto_login") + 1

\* The battery monitor and the auto-login both returned False and the
\* shutdown configuration was attempted all the same.
C27_Witness ==
    /\ result["configure_battery_monitor"] = "fail"
    /\ result["configure_auto_login"] = "fail"
    /\ Invoked("configure_shutdown")

\* Commands that install packages into the mounted root.
PackageInstalls == IndicesOf({"chroot"})

\* C28: with the desktop environment 'none', desktop_configurator.install
\* returns True, the desktop stage does not fail unless a step raises, and no
\* chroot/pacman command is run between the system install and the unmount.
C28_NoDesktopNoPackages ==
    Environment(desktopCfg) = "none" =>
        /\ result["desktop_configurator.install"] # "fail"
        /\ (\A op \in BestEffortOps \cup {"desktop_configurator.install"} :
                result[op] # "raise")
              => stageRet["_install_desktop"] # "fail"
        /\ PackageInstalls = <<>>

C30_BootRegionProtected ==
    LET p == IndicesOf({"force_ro=0", "force_ro=1"})
        b == IndicesOf({"force_ro=0", "dd_zero", "dd_image", "force_ro=1"})
    IN  /\ result["install_bootloader"] = "ok" =>
              /\ Len(b) = 4
              /\ \A k \in 1..4 : exits[b[k]] = 0
              /\ cmds[p[Len(p)]].tool = "force_ro=1"
              /\ exits[p[Len(p)]] = 0
              /\ bootRO = "ro"
        /\ ret = "True" =>
              /\ result["install_bootloader"] = "ok"
              /\ bootRO = "ro"

\* execute returned True: the four commands ran and boot0 is read-only.
C30_Witness ==
    /\ ret = "True"
    /\ Len(IndicesOf({"force_ro=0", "force_ro=1"})) = 2
    /\ bootRO = "ro"

\* C31: whenever partition_device has returned, by success, by a non-zero
\* exit of fdisk or by an exception, the temporary command file it created
\* has been removed.
C31_TempFileRemoved ==
    Invoked("partition_device") => tempFile = "removed"

\* C32: the mount-point map of a run has exactly the keys 1, 2, 3, mapped to
\* three distinct paths under one scratch directory; it is created after the
\* bootloader install and before mount_partitions, and that same map is
\* what mount_partitions and the installers receive and what the unmount
\* list is made from.
C32_MountPointMap ==
    /\ mount_points # <<>> =>
          /\ result["_create_mount_points"] = "ok"
          /\ Len(mount_points) = 3
          /\ DictKeys(mount_points) = {1, 2, 3}
          /\ \A i, j \in 1..Len(mount_points) :
                i # j => mount_points[i].path # mount_points[j].path
          /\ \A i \in 1..Len(mount_points) :
                /\ Dirname(mount_points[i].path) = MountDir
                /\ mount_points[i].path = MountPath(mount_points[i].key)
    /\ Invoked("_create_mount_points") =>
          /\ result["install_bootloader"] = "ok"
          /\ Pos("_create_mount_points") = Pos("install_bootloader") + 1
    /\ Invoked("mount_partitions") =>
          /\ Pos("mount_partitions") = Pos("_create_mount_points") + 1
          /\ mountArg = <<MountPath(1), MountPath(2), MountPath(3)>>
          /\ mount_points # <<>>
    /\ Invoked("system_installer.install") =>
          (installArg = mount_points /\ mount_points # <<>>)
    /\ \A i \in 1..Len(desktopArg) : desktopArg[i] = MountPath(2)
    /\ Invoked("unmount_partitions") =>
          unmountArg = <<MountPath(3), MountPath(2), MountPath(1)>>

\* The run went through both installers and the unmount with the map.
C32_Witness ==
    /\ Invoked("unmount_partitions")
    /\ Len(desktopArg) = 4
    /\ installArg # <<>>

----------------------------------------------------------------------------
\* The components modelled beside execute start from an idle
\* install_parabola with the default configuration.
MainIdle ==
    /\ MainInit
    /\ envManager = "CrossEnvManager"
    /\ args = [device |-> "/dev/mmcblk1", skip_build |-> FALSE]
    /\ layoutCfg = [fat_size |-> {}, system_size |-> {}, home_size |-> {}]
    /\ fsCfg = [journal_size |-> {}, block_size |-> {}, inode_size |-> {},
                inode_ratio |-> {}]
    /\ fsTypes = [system_type |-> {}, home_type |-> {}]
    /\ desktopCfg = [environment |-> {}]

----------------------------------------------------------------------------
\* CrossEnvManager: detection of the container runtime and run_command

\* Largest number of calls of one method of a CrossEnvManager object.
MaxEnvCalls == 2

\* What starting a process can give: an exit code, or an exception of
\* subprocess (the program is not installed).
ProbeResults ==
    {[raised |-> FALSE, code |-> c] : c \in RC} \cup {[raised |-> TRUE, code |-> 0]}

\* result.returncode == 0
ProbeOk(r) == ~r.raised /\ r.code = 0

\* The programs _check_container_runtime probes, in order: podman only
\* after docker ran and exited non-zero.
CheckProbes(d) ==
    IF ProbeOk(d) \/ d.raised THEN <<"docker">> ELSE <<"docker", "podman">>

\* Mutant of CheckSelected: podman is preferred to docker.
CheckSelectedPreferPodman(d, p) ==
    IF ~d.raised /\ ProbeOk(p) THEN "podman"
    ELSE IF ProbeOk(d) THEN "docker"
    ELSE "none"

\* The runtime _check_container_runtime assigns to self.container_runtime
\* ("none": no assignment).
CheckSelected(d, p) ==
    IF ProbeOk(d) THEN "docker"
    ELSE IF ~d.raised /\ ProbeOk(p) THEN "podman"
    ELSE "none"

\* One call of _check_container_runtime when the probes give d and p.
CheckCall(d, p) ==
    [probes |-> CheckProbes(d),
     results |-> IF Len(CheckProbes(d)) = 1 THEN <<d>> ELSE <<d, p>>,
     selected |-> CheckSelected(d, p),
     ret |-> CheckSelected(d, p) # "none"]

\* The first program of the command get_build_command gives: the container
\* runtime in container mode, else the command itself.
Launched(type, runtime) == IF type = "container" THEN runtime ELSE "direct"

\* What a caller of run_command observes: an exception when the call passes
\* stdin=; else (1, '', str(e)) when building the command fails (no
\* container_runtime attribute) or Popen raises; else the exit code.
RunCommandResult(type, runtime, passesStdin, launch) ==
    IF RunCommandRaises("CrossEnvManager", passesStdin)
    THEN [raised |-> TRUE, code |-> 1, err |-> "TypeError", launched |-> "none"]
    ELSE IF Launched(type, runtime) = "unset"
    THEN [raised |-> FALSE, code |-> 1, err |-> "AttributeError", launched |-> "none"]
    ELSE IF launch.raised
    THEN [raised |-> FALSE, code |-> 1, err |-> "OSError", launched |-> "none"]
    ELSE [raised |-> FALSE, code |-> launch.code, err |-> "",
          launched |-> Launched(type, runtime)]

EnvInit ==
    /\ MainIdle
    /\ ConfIdle
    /\ VerIdle
    /\ SysIdle
    /\ env_type \in {"container", "direct"}
    /\ container_runtime = "unset"
    /\ checks = <<>>
    /\ runs = <<>>

\* _check_container_runtime()
CheckContainerRuntime ==
    /\ Len(checks) < MaxEnvCalls
    /\ \E d, p \in ProbeResults :
        /\ (Len(CheckProbes(d)) = 1) => p = d
        /\ checks' = Append(checks, CheckCall(d, p))
        /\ container_runtime' = IF CheckSelected(d, p) # "none"
                                THEN CheckSelected(d, p)
                                ELSE container_runtime
    /\ UNCHANGED <<mainVars, confVars, verVars, sysVars, env_type, runs>>

\* run_command(command, cwd) or run_command(command, cwd, stdin=...)
RunCommand ==
    /\ Len(runs) < MaxEnvCalls
    /\ \E passesStdin \in BOOLEAN, launch \in ProbeResults :
        runs' = Append(runs, RunCommandResult(env_type, container_runtime,
                                              passesStdin, launch))
    /\ UNCHANGED <<mainVars, confVars, verVars, sysVars, env_type, container_runtime, checks>>

EnvNext == CheckContainerRuntime \/ RunCommand

EnvSpec == EnvInit /\ [][EnvNext]_vars

\* C33: run_command never raises: a fault while the command is built or
\* launched, a missing container runtime included, reaches the caller as
\* the exit code 1 with the error text.
C33_RunCommandNeverRaises ==
    \A i \in 1..Len(runs) :
        /\ ~runs[i].raised
        /\ runs[i].err # "" => (runs[i].code = 1 /\ runs[i].launched = "none")

----------------------------------------------------------------------------
\* SystemInstaller.install

\* The mount-point maps install is run on: keys 1, 2, 3 and any paths.
SysMountPoints ==
    {[i \in 1..NumPartitions |-> [key |-> i, path |-> f[i]]] :
        f \in [1..NumPartitions -> {"mnt/p1", "mnt/p2", "mnt/p3"}]}

\* The sub-steps of install in the order of the code, those of
\* _configure_system in its place, each with the mount point it is given.
SystemSteps(mp) ==
    LET fat == mp[DictGet(mp, 1)].path
        system == mp[DictGet(mp, 2)].path
    IN  <<[name |-> "_download_rootfs", target |-> ""],
          [name |-> "_extract_rootfs", target |-> system],
          [name |-> "_install_kernel", target |-> system],
          [name |-> "_install_bootloader_files", target |-> fat],
          [name |-> "_configure_fstab", target |-> system],
          [name |-> "_configure_network", target |-> system],
          [name |-> "_configure_serial_console", target |-> system],
          [name |-> "_configure_pam", target |-> system]>>

\* Number of sub-steps run when their outcomes are outs: up to the first
\* that is not a success.
SystemStepsRun(outs) ==
    Attempts([i \in 1..Len(outs) |-> IF outs[i] = "ok" THEN 0 ELSE 1])

\* Mutant of SystemInstallLog: a failed sub-step does not stop install.
SystemInstallLogNoStop(mp, outs) ==
    [i \in 1..Len(outs) |->
        [name |-> SystemSteps(mp)[i].name, target |-> SystemSteps(mp)[i].target,
         outcome |-> outs[i]]]

\* `if not self._<step>(...): return False' for each sub-step.
SystemInstallLog(mp, outs) ==
    [i \in 1..SystemStepsRun(outs) |->
        [name |-> SystemSteps(mp)[i].name, target |-> SystemSteps(mp)[i].target,
         outcome |-> outs[i]]]

\* True after the last sub-step succeeded; False at the first that returns
\* False or raises (except Exception: return False).
SystemInstallRet(outs) ==
    IF \A i \in 1..Len(outs) : outs[i] = "ok" THEN "True" ELSE "False"

SysInit ==
    /\ MainIdle
    /\ ConfIdle
    /\ VerIdle
    /\ EnvIdle
    /\ sysIn \in SysMountPoints
    /\ sysLog = <<>>
    /\ sysRet = "none"

\* install(mount_points, kernel_files, bootloader_files)
SystemInstall ==
    /\ sysRet = "none"
    /\ \E outs \in [1..8 -> Outcomes] :
        /\ \A i \in 1..8 : i > SystemStepsRun(outs) => outs[i] = "ok"
        /\ sysLog' = SystemInstallLog(sysIn, outs)
        /\ sysRet' = SystemInstallRet(outs)
    /\ UNCHANGED <<mainVars, confVars, verVars, envVars, sysIn>>

SysNext == SystemInstall

SysSpec == SysInit /\ [][SysNext]_vars

\* C34: install runs download, extract (system mount point), kernel (system),
\* bootloader files (FAT mount point), then fstab, network, serial console
\* and PAM (system), in that order; it stops at the first sub-step that
\* fails and returns True only if all eight succeeded.
C34_SystemInstallOrder ==
    sysRet # "none" =>
        LET n == Len(sysLog)
            names == <<"_download_rootfs", "_extract_rootfs", "_install_kernel",
                       "_install_bootloader_files", "_configure_fstab",
                       "_configure_network", "_configure_serial_console",
                       "_configure_pam">>
        IN  /\ n \in 1..8
            /\ \A k \in 1..n :
                  /\ sysLog[k].name = names[k]
                  /\ sysLog[k].target =
                        IF k = 1 THEN ""
                        ELSE IF k = 4 THEN sysIn[1].path ELSE sysIn[2].path
                  /\ k < n => sysLog[k].outcome = "ok"
            /\ (sysRet = "True") = (n = 8 /\ sysLog[n].outcome = "ok")
            /\ (sysRet = "False") = (sysLog[n].outcome # "ok")

\* The installation of the bootloader files failed: four sub-steps ran.
C34_Witness ==
    /\ sysRet = "False"
    /\ Len(sysLog) = 4
    /\ sysLog[4].outcome = "fail"
    /\ sysIn[1].path # sysIn[2].path

----------------------------------------------------------------------------
\* InstallationVerifier.verify

\* The verifier's dict {1: tmp/p1, 2: tmp/p2, 3: tmp/p3} in insertion order.
VerifierMountPoints ==
    [i \in 1..NumPartitions |->
        [key |-> i, path |-> CASE i = 1 -> "tmp/p1" [] i = 2 -> "tmp/p2"
                                [] i = 3 -> "tmp/p3"]]

\* list(mount_points.values())
DictValues(d) == [i \in 1..Len(d) |-> d[i].path]

\* _mount_partitions: a mount per item, returning False at the first that
\* exits non-zero.
VerifierMounts(dev, d, rcs) ==
    [i \in 1..Attempts(rcs) |->
        [node |-> Node(dev, PartSuffix(d[i].key)), path |-> d[i].path,
         rc |-> rcs[i]]]

\* Mutant of VerifierUmounts: the loop ends at the first failing umount.
VerifierUmountsStop(paths, rcs) ==
    [i \in 1..Attempts(rcs) |-> [path |-> paths[i], rc |-> rcs[i]]]

\* _unmount_partitions: a umount per mount point; a non-zero exit is logged
\* and the loop goes on.
VerifierUmounts(paths, rcs) ==
    [i \in 1..Len(paths) |-> [path |-> paths[i], rc |-> rcs[i]]]

\* A step of verify before the try: False or an exception ends verify with
\* False at once.
VerifyGate(ok, nextPc) ==
    IF ok
    THEN vPc' = nextPc /\ vRet' = vRet
    ELSE vPc' = "done" /\ vRet' = "False"

\* A step of verify inside the try/finally: False or an exception goes
\* through the finally clause first.
VerifyGuardedGate(ok, nextPc) ==
    /\ vPc' = IF ok THEN nextPc ELSE "unmount"
    /\ vPending' = IF ok THEN vPending ELSE "fail"
    /\ vRet' = vRet

VerInit ==
    /\ MainIdle
    /\ ConfIdle
    /\ EnvIdle
    /\ SysIdle
    /\ vPc = "bootloader"
    /\ vDevice \in Devices
    /\ vCalls = <<>>
    /\ vMountPoints = <<>>
    /\ vMounts = <<>>
    /\ vUmounts = <<>>
    /\ vPending = "none"
    /\ vRet = "none"

\* _verify_bootloader(device)
VerifyBootloader ==
    /\ vPc = "bootloader"
    /\ vCalls' = Append(vCalls, "_verify_bootloader")
    /\ \E o \in Outcomes : VerifyGate(o = "ok", "partitions")
    /\ UNCHANGED <<mainVars, confVars, envVars, sysVars, vDevice, vMountPoints, vMounts,
                   vUmounts, vPending>>

\* _verify_partitions(device)
VerifyPartitions ==
    /\ vPc = "partitions"
    /\ vCalls' = Append(vCalls, "_verify_partitions")
    /\ \E o \in Outcomes : VerifyGate(o = "ok", "create")
    /\ UNCHANGED <<mainVars, confVars, envVars, sysVars, vDevice, vMountPoints, vMounts,
                   vUmounts, vPending>>

\* mount_points = self._create_mount_points(), before the try: an OSError
\* reaches the except clause of verify.
VerifyCreateMountPoints ==
    /\ vPc = "create"
    /\ vCalls' = Append(vCalls, "_create_mount_points")
    /\ \E o \in {"ok", "raise"} :
        /\ vMountPoints' = IF o = "ok" THEN VerifierMountPoints ELSE vMountPoints
        /\ VerifyGate(o = "ok", "mount")
    /\ UNCHANGED <<mainVars, confVars, envVars, sysVars, vDevice, vMounts, vUmounts,
                   vPending>>

\* _mount_partitions(device, mount_points), inside the try.
VerifyMount ==
    /\ vPc = "mount"
    /\ vCalls' = Append(vCalls, "_mount_partitions")
    /\ \E rcs \in [1..Len(vMountPoints) -> RC] :
        /\ \A i \in 1..Len(rcs) : i > Attempts(rcs) => rcs[i] = 0
        /\ vMounts' = VerifierMounts(vDevice, vMountPoints, rcs)
        /\ VerifyGuardedGate(AllZero(rcs), "system")
    /\ UNCHANGED <<mainVars, confVars, envVars, sysVars, vDevice, vMountPoints, vUmounts>>

\* _verify_system(mount_points[2])
VerifySystem ==
    /\ vPc = "system"
    /\ vCalls' = Append(vCalls, "_verify_system")
    /\ \E o \in Outcomes : VerifyGuardedGate(o = "ok", "desktop")
    /\ UNCHANGED <<mainVars, confVars, envVars, sysVars, vDevice, vMountPoints, vMounts,
                   vUmounts>>

\* _verify_desktop(mount_points[2])
VerifyDesktop ==
    /\ vPc = "desktop"
    /\ vCalls' = Append(vCalls, "_verify_desktop")
    /\ \E o \in Outcomes : VerifyGuardedGate(o = "ok", "unmount")
    /\ UNCHANGED <<mainVars, confVars, envVars, sysVars, vDevice, vMountPoints, vMounts,
                   vUmounts>>

\* The finally clause, _unmount_partitions(list(mount_points.values())), and
\* the return that follows it.
VerifyUnmount ==
    /\ vPc = "unmount"
    /\ vCalls' = Append(vCalls, "_unmount_partitions")
    /\ \E rcs \in [1..Len(vMountPoints) -> RC] :
        vUmounts' = VerifierUmounts(DictValues(vMountPoints), rcs)
    /\ vRet' = IF vPending = "fail" THEN "False" ELSE "True"
    /\ vPc' = "done"
    /\ UNCHANGED <<mainVars, confVars, envVars, sysVars, vDevice, vMountPoints, vMounts,
                   vPending>>

VerNext ==
    \/ VerifyBootloader
    \/ VerifyPartitions
    \/ VerifyCreateMountPoints
    \/ VerifyMount
    \/ VerifySystem
    \/ VerifyDesktop
    \/ VerifyUnmount

VerSpec == VerInit /\ [][VerNext]_vars

\* Number of invocations of _unmount_partitions by verify.
VerifierUnmountCalls ==
    Cardinality({i \in 1..Len(vCalls) : vCalls[i] = "_unmount_partitions"})

\* C35: once verify has created the mount points, _unmount_partitions is
\* invoked exactly once before verify returns, whether mounting failed
\* part-way or a verification step failed, and it runs a umount on each of
\* the three mount points whatever the exit codes of the umounts.
C35_VerifierUnmounts ==
    /\ VerifierUnmountCalls <= 1
    /\ VerifierUnmountCalls = 1 => vMountPoints # <<>>
    /\ (vRet # "none" /\ vMountPoints # <<>>) => VerifierUnmountCalls = 1
    /\ VerifierUnmountCalls = 1 =>
          /\ Len(vUmounts) = 3
          /\ \A i \in 1..3 : vUmounts[i].path = vMountPoints[i].path
          /\ vRet # "none"
    /\ vRet = "True" => vPending = "none"

\* Mounting failed at the second partition, the first umount failed and
\* the other two were run all the same.
C35_Witness ==
    /\ vRet = "False"
    /\ Len(vMounts) = 2
    /\ Len(vUmounts) = 3
    /\ vUmounts[1].rc # 0

----------------------------------------------------------------------------
\* ConfigManager: a configuration is a tree; a node is a section (a dict of
\* nodes by key) or a value.

\* Largest value a configuration key is given.
MaxValue == 2

ConfigKeys == {"a", "b"}

\* key_path.split('.'): the key paths of one or two keys.
KeyPaths ==
    {<<k>> : k \in ConfigKeys} \cup {<<k, l>> : k, l \in ConfigKeys}

Value(v) == [isDict |-> FALSE, val |-> v, items |-> <<>>]

\* A dict with the items f.
Section(f) == [isDict |-> TRUE, val |-> 0, items |-> f]

\* {}
EmptySection == [isDict |-> TRUE, val |-> 0, items |-> <<>>]

\* `key in value' for a dict.
HasKey(node, k) == node.items # <<>> /\ k \in DOMAIN node.items

\* What get_value gives when a key of the path is missing: the default.
Missing == [isDict |-> FALSE, val |-> 0, items |-> <<>>]

\* What set_value ends with when it indexes a value that is not a dict.
TypeError == [isDict |-> FALSE, val |-> -1, items |-> <<>>]

\* get_value: `if isinstance(value, dict) and key in value: value =
\* value[key]', else the default.
RECURSIVE GetValue(_, _)
GetValue(node, keys) ==
    IF keys = <<>> THEN node
    ELSE IF node.isDict /\ HasKey(node, Head(keys))
    THEN GetValue(node.items[Head(keys)], Tail(keys))
    ELSE Missing

\* set_value: for each key but the last, `if key not in config: config[key]
\* = {}' and `config = config[key]'; then `config[keys[-1]] = value'. A
\* config that is not a dict makes the membership test or the assignment
\* raise TypeError.
RECURSIVE SetValue(_, _, _)
SetValue(node, keys, v) ==
    LET k == Head(keys)
        below == IF HasKey(node, k) THEN node.items[k] ELSE EmptySection
        new == IF Len(keys) = 1 THEN Value(v)
               ELSE SetValue(below, Tail(keys), v)
        S == (IF node.items = <<>> THEN {} ELSE DOMAIN node.items) \cup {k}
    IN  IF ~node.isDict THEN TypeError
        ELSE IF new = TypeError THEN TypeError
        ELSE Section([j \in S |-> IF j = k THEN new ELSE node.items[j]])

\* ConfigManager(): self.config = {}
ConfInit ==
    /\ MainIdle
    /\ EnvIdle
    /\ SysIdle
    /\ VerIdle
    /\ config = EmptySection
    /\ lastSet = <<>>
    /\ got = <<>>
    /\ defaultCfg = <<>>
    /\ userCfg = <<>>
    /\ loaded = FALSE

\* set_value(key_path, value)
SetValueCall ==
    /\ \E k \in KeyPaths, v \in 1..MaxValue :
        LET new == SetValue(config, k, v) IN
        /\ lastSet' = <<[key |-> k, val |-> v, raised |-> new = TypeError]>>
        /\ config' = IF new = TypeError THEN config ELSE new
    /\ got' = <<>>
    /\ UNCHANGED <<mainVars, envVars, sysVars, verVars, defaultCfg, userCfg,
                   loaded>>

\* get_value(key_path)
GetValueCall ==
    /\ got = <<>>
    /\ \E k \in KeyPaths :
        got' = <<[key |-> k, res |-> GetValue(config, k)]>>
    /\ UNCHANGED <<mainVars, envVars, sysVars, verVars, config, lastSet,
                   defaultCfg, userCfg, loaded>>

ConfNext == SetValueCall \/ GetValueCall

ConfSpec == ConfInit /\ [][ConfNext]_vars

\* C36: whatever set_value calls came before, set_value(k, v) completes and
\* a get_value(k) that follows it returns v.
C36_SetGetRoundTrip ==
    lastSet # <<>> =>
        /\ ~lastSet[1].raised
        /\ GetValue(config, lastSet[1].key) = Value(lastSet[1].val)
        /\ (got # <<>> /\ got[1].key = lastSet[1].key) =>
              got[1].res = Value(lastSet[1].val)

----------------------------------------------------------------------------
\* ConfigManager.load_config: the default configuration, with the user
\* configuration merged into it.

\* The dicts whose keys are among ConfigKeys and whose items are in Items.
SectionsOver(Items) ==
    {[isDict |-> TRUE, val |-> 0, items |-> f] :
        f \in {<<>>} \cup UNION {[S -> Items] :
                                   S \in (SUBSET ConfigKeys) \ {{}}}}

\* The YAML documents of at most two levels of sections whose values are
\* among Vals.
Documents(Vals) ==
    LET values == {Value(v) : v \in Vals}
        inner == values \cup {EmptySection}
        outer == values \cup SectionsOver(inner)
    IN  SectionsOver(outer)

\* yaml.safe_load of the default file and of the user file: every value of
\* the default file is 1, every value of the user file is 2.
DefaultDocuments == Documents({1})

UserDocuments == Documents({2})

Keys(node) == IF node.items = <<>> THEN {} ELSE DOMAIN node.items

\* Mutant of MergeConfigs: every user key replaces the default's item.
RECURSIVE MergeConfigsWholesale(_, _)
MergeConfigsWholesale(default_config, user_config) ==
    LET S == Keys(default_config) \cup Keys(user_config)
        Item(key) ==
            IF key \in Keys(user_config) THEN user_config.items[key]
            ELSE default_config.items[key]
    IN  Section(IF S = {} THEN <<>> ELSE [key \in S |-> Item(key)])

\* _merge_configs: for each key of user_config, merge recursively when both
\* sides hold a dict at it, else `default_config[key] = value'.
RECURSIVE MergeConfigs(_, _)
MergeConfigs(default_config, user_config) ==
    LET Item(key) ==
            IF key \in Keys(user_config)
            THEN IF /\ key \in Keys(default_config)
                    /\ default_config.items[key].isDict
                    /\ user_config.items[key].isDict
                 THEN MergeConfigs(default_config.items[key],
                                   user_config.items[key])
                 ELSE user_config.items[key]
            ELSE default_config.items[key]
        S == Keys(default_config) \cup Keys(user_config)
    IN  Section(IF S = {} THEN <<>> ELSE [key \in S |-> Item(key)])

\* ConfigManager(config_path) before load_config, with the two files it will
\* read; userCfg is empty when config_path is None.
LoadInit ==
    /\ MainIdle
    /\ EnvIdle
    /\ SysIdle
    /\ VerIdle
    /\ config = EmptySection
    /\ lastSet = <<>>
    /\ got = <<>>
    /\ defaultCfg \in {<<d>> : d \in DefaultDocuments}
    /\ userCfg \in {<<>>} \cup {<<u>> : u \in UserDocuments}
    /\ loaded = FALSE

\* load_config()
LoadConfig ==
    /\ ~loaded
    /\ config' = IF userCfg = <<>> THEN defaultCfg[1]
                  ELSE MergeConfigs(defaultCfg[1], userCfg[1])
    /\ loaded' = TRUE
    /\ UNCHANGED <<mainVars, envVars, sysVars, verVars, lastSet, got,
                   defaultCfg, userCfg>>

LoadNext == LoadConfig

LoadSpec == LoadInit /\ [][LoadNext]_vars

IsValue(node) == ~node.isDict /\ node.val > 0

\* The key path p and the key paths it extends.
Prefixes(p) == {SubSeq(p, 1, n) : n \in 1..Len(p)}

\* The user configuration holds a value at p, or a section where the
\* default has none.
UserSets(p) ==
    \/ IsValue(GetValue(userCfg[1], p))
    \/ /\ GetValue(userCfg[1], p).isDict
       /\ ~GetValue(defaultCfg[1], p).isDict

\* The user configuration mentions p: it sets p or a key path p extends.
UserMentions(p) ==
    userCfg # <<>> /\ \E q \in Prefixes(p) : UserSets(q)

\* C37: after load_config every key path at which the user configuration
\* holds a value holds that value, every section of the user configuration
\* is a section, and every key path at which the default configuration holds
\* a value and that the user configuration does not mention holds the
\* default's value.
C37_MergeKeepsBoth ==
    loaded =>
        \A p \in KeyPaths :
            /\ (userCfg # <<>> /\ IsValue(GetValue(userCfg[1], p))) =>
                  GetValue(config, p) = GetValue(userCfg[1], p)
            /\ (userCfg # <<>> /\ GetValue(userCfg[1], p).isDict) =>
                  GetValue(config, p).isDict
            /\ (IsValue(GetValue(defaultCfg[1], p)) /\ ~UserMentions(p)) =>
                  GetValue(config, p) = GetValue(defaultCfg[1], p)

\* load_config has merged a user section into a default section: one key of
\* the section keeps the default's value, another has the user's.
C37_Witness ==
    /\ loaded
    /\ userCfg # <<>>
    /\ GetValue(defaultCfg[1], <<"a", "a">>) = Value(1)
    /\ GetValue(userCfg[1], <<"a", "b">>) = Value(2)
    /\ ~HasKey(userCfg[1].items["a"], "a")
    /\ GetValue(config, <<"a", "a">>) = Value(1)
    /\ GetValue(config, <<"a", "b">>) = Value(2)

====
